---- MODULE Spec2Model ----
(***************************************************************************)
(* Job Board Platform: the Application lifecycle (POST /apply and          *)
(* PUT /applications/:id) over the Application collection and its unique   *)
(* (candidateId, jobId) index.  Each request handler is an async function; *)
(* every await is a point where another request may run, so a handler is   *)
(* one action per await-delimited segment.                                 *)
(***************************************************************************)
EXTENDS Integers, FiniteSets, Sequences, TLC

\* ---- bounds of the model ------------------------------------------------
\* Total number of requests the server receives in one behaviour.
MaxRequests == 3

\* The clock (Date.now) runs from 0 to MaxTime.
MaxTime == 1

\* The requests in flight at once (each handles one request at a time).
Handlers == {"h1", "h2"}

\* ---- identifiers --------------------------------------------------------
\* A field that is absent from the body (or empty): falsy in the `!x` tests.
Absent == ""
\* A string that does not cast to an ObjectId: findById rejects (CastError).
Malformed == "not-an-id"

\* Well-formed identifiers that requests may carry.  c9 and r9 match no
\* stored record; j9 matches none unless the initial state says otherwise.
JobIds == {"j1", "j9"}
CandidateIds == {"c1", "c2", "c9"}
ResumeIds == {"r1", "r2", "r3", "r9"}

\* The _id of the n-th Application document constructed by the server.
NewObjectId(n) == "a" \o ToString(n)
ApplicationIds == {NewObjectId(n) : n \in 1..MaxRequests}

\* The result of a lookup that matched nothing.
Null == "null"

VARIABLES
  server,        \* the server process: database connection, listening, exit
  testData,      \* the test client: its position and the records it holds
  now,           \* the clock: the value of Date.now()
  employers,     \* _id of every stored Employer
  employerEmail, \* stored Employers: _id -> email
  jobs,          \* _id of every stored Job
  salary,        \* stored Jobs: _id -> salary
  candidates,    \* _id of every stored Candidate
  candidateEmail, \* stored Candidates: _id -> email
  resumes,       \* stored Resumes: _id -> candidateId
  applications,  \* stored Applications: set of documents
  nextId,        \* number of Application documents constructed so far
  started,       \* number of requests received so far
  pc,            \* per handler: position in the request handler
  req,           \* per handler: the request being handled (or last handled)
  loc,           \* per handler: local variables of the handler (as they
                 \* were when it returned, once it has)
  resp           \* per handler: the response sent for req (status 0: none yet)

vars == <<server, testData, now, employers, employerEmail, jobs, salary,
          candidates, candidateEmail, resumes, applications, nextId, started,
          pc, req, loc, resp>>

\* the collections other than Application
store == <<employers, employerEmail, jobs, salary, candidates,
           candidateEmail, resumes>>

\* ---- Application schema -------------------------------------------------
\* status.enum.values
StatusEnum == {"applied", "shortlisted", "rejected"}

\* Variant for testing: a default outside the enum.
DefaultStatus_pending == "pending"

\* status.default
DefaultStatus == "applied"

\* new Application({jobId, candidateId, resumeId}) with schema defaults:
\* status 'applied', appliedAt Date.now() at construction (at)
NewApplication(id, jobId, candidateId, resumeId, at) ==
  [id |-> id, jobId |-> jobId, candidateId |-> candidateId,
   resumeId |-> resumeId, status |-> DefaultStatus, appliedAt |-> at]

\* timestamps: true -- the document as written at time t
Stamped(doc, t) ==
  [id |-> doc.id, jobId |-> doc.jobId, candidateId |-> doc.candidateId,
   resumeId |-> doc.resumeId, status |-> doc.status,
   appliedAt |-> doc.appliedAt, updatedAt |-> t]

\* Variants of the index used to test the properties below: no unique
\* index at all; resumeId added to the key; rejected applications left out
\* of the index.
UniqueIndexViolated_none(apps, doc) == FALSE

UniqueIndexViolated_resume(apps, doc) ==
  \E a \in apps : /\ a.candidateId = doc.candidateId
                  /\ a.jobId = doc.jobId
                  /\ a.resumeId = doc.resumeId

UniqueIndexViolated_partial(apps, doc) ==
  \E a \in apps : /\ a.candidateId = doc.candidateId
                  /\ a.jobId = doc.jobId
                  /\ a.status # "rejected"

\* applicationSchema.index({candidateId: 1, jobId: 1}, {unique: true}):
\* an insert of doc is rejected (E11000) when a stored document has the
\* same key.
UniqueIndexViolated(apps, doc) ==
  \E a \in apps : a.candidateId = doc.candidateId /\ a.jobId = doc.jobId

\* The schema's validators, run by save(): the job and the candidate
\* exist, the resume exists and belongs to the candidate, the status is one
\* of the enum.
SchemaValid(doc) ==
  /\ doc.status \in StatusEnum
  /\ doc.jobId \in jobs
  /\ doc.candidateId \in candidates
  /\ doc.resumeId \in DOMAIN resumes
  /\ resumes[doc.resumeId] = doc.candidateId

\* Model.findById(id): CastError for a malformed id, else the match or null.
IsObjectId(id) == id # Malformed

\* Application.findOne({jobId, candidateId})
FindOne(apps, jobId, candidateId) ==
  {a \in apps : a.jobId = jobId /\ a.candidateId = candidateId}

\* ---- responses ----------------------------------------------------------
NoResponse == [status |-> 0]

MissingField(field, message) ==
  [status |-> 400, error |-> TRUE, message |-> message, field |-> field]

\* Variant for testing: a 404 that does not say which field it is about.
NotFound_generic(field, message) ==
  [status |-> 404, error |-> TRUE, message |-> "Not found", field |-> "id"]

NotFound(field, message) ==
  [status |-> 404, error |-> TRUE, message |-> message, field |-> field]

ResumeNotOwned ==
  [status |-> 400, error |-> TRUE,
   message |-> "Resume does not belong to the specified candidate",
   field |-> "resumeId"]

\* the pre-check's 409
DuplicateApplication(existing) ==
  [status |-> 409, error |-> TRUE,
   message |-> "Candidate has already applied for this job",
   existingApplicationId |-> existing.id]

\* the catch block's 409 for error.code === 11000
DuplicateKey ==
  [status |-> 409, error |-> TRUE,
   message |-> "Candidate has already applied for this job"]

ValidationFailed ==
  [status |-> 400, error |-> TRUE, message |-> "Validation failed",
   details |-> "validationErrors"]

\* CastError of findById: error.path is the queried path, _id
InvalidIdFormat ==
  [status |-> 400, error |-> TRUE, message |-> "Invalid ID format",
   field |-> "_id"]

Created(doc) ==
  [status |-> 201, success |-> TRUE,
   message |-> "Application submitted successfully",
   data |-> [id |-> doc.id, status |-> doc.status,
             appliedAt |-> doc.appliedAt, job |-> doc.jobId,
             candidate |-> doc.candidateId, resume |-> doc.resumeId]]

StatusRequired ==
  [status |-> 400, error |-> TRUE, message |-> "Status is required",
   field |-> "status"]

\* const validStatuses = [...] of the PUT handler
ValidStatuses == {"applied", "shortlisted", "rejected"}

\* Variant for testing: the 400 without the list of valid values.
InvalidStatus_bare ==
  [status |-> 400, error |-> TRUE,
   message |-> "Status must be one of: applied, shortlisted, rejected",
   field |-> "status"]

InvalidStatus ==
  [status |-> 400, error |-> TRUE,
   message |-> "Status must be one of: applied, shortlisted, rejected",
   field |-> "status", validValues |-> ValidStatuses]

InvalidApplicationId(id) ==
  [status |-> 400, error |-> TRUE,
   message |-> "Invalid application ID format", id |-> id]

\* Variant for testing: the handler without its `if (!updatedApplication)`
\* test reads a field of null and ends in the catch block's 500.
ApplicationNotFound_unchecked(id) ==
  [status |-> 500, error |-> TRUE,
   message |-> "Failed to update application status"]

ApplicationNotFound(id) ==
  [status |-> 404, error |-> TRUE, message |-> "Application not found",
   id |-> id]

Updated(doc) ==
  [status |-> 200, success |-> TRUE,
   message |-> "Application status updated successfully",
   data |-> [id |-> doc.id, status |-> doc.status,
             appliedAt |-> doc.appliedAt, job |-> doc.jobId,
             candidate |-> doc.candidateId, resume |-> doc.resumeId,
             updatedAt |-> doc.updatedAt]]

\* ---- initial state ------------------------------------------------------
NoRequest == [op |-> "none"]
\* newId, appliedAt: the _id and the appliedAt of the document built by
\* `new Application(...)`, if any
NoLocals == [newId |-> Absent, appliedAt |-> 0]

\* The store holds one employer, one job, two candidates and three resumes
\* created through POST /employers, /jobs, /candidates and /resumes (a
\* resume is only stored for an existing candidate); no application has
\* been submitted yet.
\* The server has connected to the database and listens; the test client
\* has not run.
Listening == [connected |-> TRUE, listening |-> TRUE, exitCode |-> <<>>]
\* test: the position of the test client in runAllTests (0: not running);
\* the other fields: what the client remembers of the responses
NoTestData ==
  [test |-> 0, employer |-> Absent, job |-> Absent, candidate |-> Absent,
   resume |-> Absent, application |-> Absent, appliedAt |-> 0]

\* the emails of the stored employer and candidates
Seeded ==
  /\ server = Listening
  /\ testData = NoTestData
  /\ employerEmail = [e \in {"e1"} |-> <<"h", "@", "t", ".", "c">>]
  /\ candidateEmail = [c \in {"c1", "c2"} |->
                         IF c = "c1" THEN <<"j", "@", "t", ".", "c">>
                         ELSE <<"k", "@", "t", ".", "c">>]

Init ==
  /\ Seeded
  /\ now = 0
  /\ employers = {"e1"}
  /\ jobs = {"j1"}
  /\ salary = [j \in {"j1"} |-> 75000]
  /\ candidates = {"c1", "c2"}
  /\ resumes = [r \in {"r1", "r2", "r3"} |->
                  IF r = "r2" THEN "c2" ELSE "c1"]
  /\ applications = {}
  /\ nextId = 0
  /\ started = 0
  /\ pc = [h \in Handlers |-> "idle"]
  /\ req = [h \in Handlers |-> NoRequest]
  /\ loc = [h \in Handlers |-> NoLocals]
  /\ resp = [h \in Handlers |-> NoResponse]

\* res.status(..).json(..): the handler returns
Respond(h, r) ==
  /\ pc' = [pc EXCEPT ![h] = "done"]
  /\ resp' = [resp EXCEPT ![h] = r]

Free(h) == pc[h] \in {"idle", "done"}

\* ---- request inputs -----------------------------------------------------
JobInputs == JobIds \cup {Absent, Malformed}
CandidateInputs == CandidateIds \cup {Absent, Malformed}
ResumeInputs == ResumeIds \cup {Absent, Malformed}
ApplicationIdInputs == ApplicationIds \cup {Malformed}
\* "pending" stands for any non-empty string outside the enum
StatusInputs == StatusEnum \cup {Absent, "pending"}
\* a status field in the body of a POST /apply, which the route does not
\* document
BodyStatusInputs == {Absent, "shortlisted"}

\* ---- POST /apply --------------------------------------------------------
\* Receipt of the request and the synchronous segment up to
\* `await Promise.all([...findById])`: the three required-field tests.
ApplyRequest(h, j, c, r, s) ==
    /\ Free(h)
    /\ started < MaxRequests
    /\ started' = started + 1
    /\ req' = [req EXCEPT ![h] = [op |-> "apply", jobId |-> j,
                                  candidateId |-> c, resumeId |-> r,
                                  status |-> s]]
    /\ loc' = [loc EXCEPT ![h] = NoLocals]
    /\ IF j = Absent
         THEN Respond(h, MissingField("jobId", "Job ID is required"))
       ELSE IF c = Absent
         THEN Respond(h, MissingField("candidateId",
                                      "Candidate ID is required"))
       ELSE IF r = Absent
         THEN Respond(h, MissingField("resumeId", "Resume ID is required"))
       ELSE /\ pc' = [pc EXCEPT ![h] = "lookups"]
            /\ resp' = [resp EXCEPT ![h] = NoResponse]
    /\ UNCHANGED <<server, testData, now, store, applications, nextId>>

\* a POST /apply with any of the inputs
ApplyStart(h) ==
  \E j \in JobInputs, c \in CandidateInputs, r \in ResumeInputs,
     s \in BodyStatusInputs :
    ApplyRequest(h, j, c, r, s)

\* The order in which the three findById calls of the Promise.all complete.
Lookups == {"job", "candidate", "resume"}
CompletionOrders ==
  {o \in [1..3 -> Lookups] : \A k \in Lookups : \E i \in 1..3 : o[i] = k}

\* Variant for testing: the handler without the ownership test.
ReferenceFailure_unowned(job, candidate, resume, candidateId, order) ==
  IF job = Null THEN NotFound("jobId", "Job not found")
  ELSE IF candidate = Null
    THEN NotFound("candidateId", "Candidate not found")
  ELSE IF resume = Null THEN NotFound("resumeId", "Resume not found")
  ELSE NoResponse

\* Variant for testing: the not-found of the lookup that completed first is
\* the one reported.
ReferenceFailure_completion(job, candidate, resume, candidateId, order) ==
  LET result == [k \in Lookups |->
                   IF k = "job" THEN job
                   ELSE IF k = "candidate" THEN candidate ELSE resume]
      failed == {i \in 1..3 : result[order[i]] = Null}
  IN IF failed # {}
       THEN LET first == order[CHOOSE i \in failed : \A j \in failed : i <= j]
            IN IF first = "job" THEN NotFound("jobId", "Job not found")
               ELSE IF first = "candidate"
                 THEN NotFound("candidateId", "Candidate not found")
               ELSE NotFound("resumeId", "Resume not found")
     ELSE IF resume # candidateId THEN ResumeNotOwned
     ELSE NoResponse

\* The failure the handler reports once Promise.all has resolved with
\* [job, candidate, resume] (Null: no match; a resume is held as its
\* candidateId): the tests run on the destructured results in source order,
\* whatever order the lookups completed in.  NoResponse: no failure.
ReferenceFailure(job, candidate, resume, candidateId, order) ==
  IF job = Null THEN NotFound("jobId", "Job not found")
  ELSE IF candidate = Null
    THEN NotFound("candidateId", "Candidate not found")
  ELSE IF resume = Null THEN NotFound("resumeId", "Resume not found")
  ELSE IF resume # candidateId THEN ResumeNotOwned
  ELSE NoResponse

\* `await Promise.all([Job.findById, Candidate.findById, Resume.findById])`
\* completes, then the segment up to `await Application.findOne(...)`.
\* The three reads touch collections no request handler of this
\* specification writes, so they are taken in one step; a findById of a
\* malformed id rejects, which rejects the Promise.all (catch: CastError).
ResolveReferences(h) ==
  /\ pc[h] = "lookups"
  /\ \E order \in CompletionOrders :
       LET r == req[h]
           job == IF r.jobId \in jobs THEN r.jobId ELSE Null
           candidate == IF r.candidateId \in candidates
                          THEN r.candidateId ELSE Null
           resume == IF r.resumeId \in DOMAIN resumes
                       THEN resumes[r.resumeId] ELSE Null
           failure == ReferenceFailure(job, candidate, resume,
                                       r.candidateId, order)
       IN IF \E id \in {r.jobId, r.candidateId, r.resumeId} : ~IsObjectId(id)
            THEN Respond(h, InvalidIdFormat)
          ELSE IF failure # NoResponse
            THEN Respond(h, failure)
          ELSE /\ pc' = [pc EXCEPT ![h] = "findOne"]
               /\ UNCHANGED resp
  /\ UNCHANGED <<server, testData, now, store, applications, nextId, started, req, loc>>

\* Application.findOne completes: the duplicate pre-check, then
\* `new Application(...)` up to `await newApplication.save()`.
CheckExisting(h) ==
  /\ pc[h] = "findOne"
  /\ LET existing == FindOne(applications, req[h].jobId, req[h].candidateId)
     IN IF existing # {}
          THEN /\ \E a \in existing : Respond(h, DuplicateApplication(a))
               /\ UNCHANGED <<nextId, loc>>
          ELSE /\ nextId' = nextId + 1
               /\ loc' = [loc EXCEPT ![h] = [newId |-> NewObjectId(nextId + 1),
                                            appliedAt |-> now]]
               /\ pc' = [pc EXCEPT ![h] = "save"]
               /\ UNCHANGED resp
  /\ UNCHANGED <<server, testData, now, store, applications, started, req>>

\* Variant for testing: the document is built from the whole request body.
Document_body(h) ==
  [NewApplication(loc[h].newId, req[h].jobId, req[h].candidateId,
                  req[h].resumeId, loc[h].appliedAt)
     EXCEPT !.status = IF req[h].status = Absent THEN DefaultStatus
                       ELSE req[h].status]

\* the document held by the handler (newApplication / savedApplication),
\* built from the body's jobId, candidateId and resumeId only
Document(h) ==
  NewApplication(loc[h].newId, req[h].jobId, req[h].candidateId,
                 req[h].resumeId, loc[h].appliedAt)

\* newApplication.save() completes: schema validation, then the insert
\* under the unique index; up to `await savedApplication.populate(...)`.
Save(h) ==
  /\ pc[h] = "save"
  /\ IF ~SchemaValid(Document(h))
       THEN /\ Respond(h, ValidationFailed)
            /\ UNCHANGED applications
     ELSE IF UniqueIndexViolated(applications, Document(h))
       THEN /\ Respond(h, DuplicateKey)
            /\ UNCHANGED applications
     ELSE /\ applications' = applications \cup {Stamped(Document(h), now)}
          /\ pc' = [pc EXCEPT ![h] = "populate"]
          /\ UNCHANGED resp
  /\ UNCHANGED <<server, testData, now, store, nextId, started, req, loc>>

\* populate completes; the 201 is built from the handler's own document.
Populate(h) ==
  /\ pc[h] = "populate"
  /\ Respond(h, Created(Document(h)))
  /\ UNCHANGED <<server, testData, now, store, applications, nextId, started, req, loc>>

\* ---- PUT /applications/:id ----------------------------------------------
\* Variant for testing: the handler lets every non-empty status through.
IsValidStatus_any(s) == TRUE

\* validStatuses.includes(status)
IsValidStatus(s) == s \in ValidStatuses

\* Receipt of the request and the synchronous segment up to
\* `await Application.findByIdAndUpdate(...)`.
UpdateRequest(h, id, s) ==
    /\ Free(h)
    /\ started < MaxRequests
    /\ started' = started + 1
    /\ req' = [req EXCEPT ![h] = [op |-> "update", id |-> id, status |-> s]]
    /\ loc' = [loc EXCEPT ![h] = NoLocals]
    /\ IF s = Absent
         THEN Respond(h, StatusRequired)
       ELSE IF ~IsValidStatus(s)
         THEN Respond(h, InvalidStatus)
       ELSE /\ pc' = [pc EXCEPT ![h] = "findByIdAndUpdate"]
            /\ resp' = [resp EXCEPT ![h] = NoResponse]
    /\ UNCHANGED <<server, testData, now, store, applications, nextId>>

\* a PUT /applications/:id with any of the inputs
UpdateStart(h) ==
  \E id \in ApplicationIdInputs, s \in StatusInputs :
    UpdateRequest(h, id, s)

\* Variant for testing: the update also sets appliedAt.
StatusUpdate_reapplied(a, status, t) ==
  [a EXCEPT !.status = status, !.appliedAt = t, !.updatedAt = t]

\* Variant for testing: a rejected application keeps its status.
StatusUpdate_final(a, status, t) ==
  IF a.status = "rejected" THEN a
  ELSE [a EXCEPT !.status = status, !.updatedAt = t]

\* Variant for testing: the update document replaces the stored one
\* (overwrite), so the references are lost.
StatusUpdate_overwrite(a, status, t) ==
  [a EXCEPT !.status = status, !.updatedAt = t, !.jobId = Absent,
            !.candidateId = Absent, !.resumeId = Absent]

\* Variant for testing: the update stores 'declined' for 'rejected'.
StatusUpdate_declined(a, status, t) ==
  [a EXCEPT !.status = IF status = "rejected" THEN "declined" ELSE status,
            !.updatedAt = t]

\* The update document {status: status} applied to a at time t: status is
\* set, and timestamps: true sets updatedAt.
StatusUpdate(a, status, t) ==
  [a EXCEPT !.status = status, !.updatedAt = t]

\* findByIdAndUpdate(id, {status}, {new: true, runValidators: true})
\* .populate(...) completes, and the response is sent.  The update
\* validators check the new status against the schema's enum.
FindByIdAndUpdate(h) ==
  /\ pc[h] = "findByIdAndUpdate"
  /\ LET id == req[h].id
         found == {a \in applications : a.id = id}
     IN IF ~IsObjectId(id)
          THEN /\ Respond(h, InvalidApplicationId(id))
               /\ UNCHANGED applications
        ELSE IF req[h].status \notin StatusEnum
          THEN /\ Respond(h, ValidationFailed)
               /\ UNCHANGED applications
        ELSE IF found = {}
          THEN /\ Respond(h, ApplicationNotFound(id))
               /\ UNCHANGED applications
        ELSE \E a \in found :
               LET updated == StatusUpdate(a, req[h].status, now)
               IN /\ applications' = (applications \ {a}) \cup {updated}
                  /\ Respond(h, Updated(updated))
  /\ UNCHANGED <<server, testData, now, store, nextId, started, req, loc>>

\* ---- GET /applications/:candidateId -------------------------------------
CandidateNotFound(candidateId) ==
  [status |-> 404, error |-> TRUE, message |-> "Candidate not found",
   candidateId |-> candidateId]

InvalidCandidateId(candidateId) ==
  [status |-> 400, error |-> TRUE, message |-> "Invalid candidate ID format",
   candidateId |-> candidateId]

\* one entry of formattedApplications
Formatted(app) ==
  [id |-> app.id, status |-> app.status, appliedAt |-> app.appliedAt,
   job |-> app.jobId, candidate |-> app.candidateId,
   resume |-> app.resumeId, updatedAt |-> app.updatedAt]

Found(candidateId, list) ==
  [status |-> 200, success |-> TRUE, candidateInfo |-> candidateId,
   count |-> Len(list), data |-> [i \in 1..Len(list) |-> Formatted(list[i])]]

\* every ordering of the documents of found
Orderings(found) ==
  {l \in [1..Cardinality(found) -> found] :
     \A i, j \in 1..Cardinality(found) : i # j => l[i] # l[j]}

\* Variant for testing: the query without its filter.
FindByCandidate_all(apps, candidateId) ==
  {l \in Orderings(apps) :
     \A i, j \in 1..Len(l) : i < j => l[i].appliedAt >= l[j].appliedAt}

\* Variant for testing: the query sorted by {appliedAt: 1}.
FindByCandidate_ascending(apps, candidateId) ==
  {l \in Orderings({a \in apps : a.candidateId = candidateId}) :
     \A i, j \in 1..Len(l) : i < j => l[i].appliedAt <= l[j].appliedAt}

\* Application.findByCandidate: find({candidateId}).sort({appliedAt: -1}).
\* The results the query may give: the sort fixes no order among documents
\* of equal appliedAt.
FindByCandidate(apps, candidateId) ==
  {l \in Orderings({a \in apps : a.candidateId = candidateId}) :
     \A i, j \in 1..Len(l) : i < j => l[i].appliedAt >= l[j].appliedAt}

\* Receipt of the request, up to `await Candidate.findById(candidateId)`.
ListRequest(h, c) ==
    /\ Free(h)
    /\ started < MaxRequests
    /\ started' = started + 1
    /\ req' = [req EXCEPT ![h] = [op |-> "list", candidateId |-> c]]
    /\ loc' = [loc EXCEPT ![h] = NoLocals]
    /\ pc' = [pc EXCEPT ![h] = "findCandidate"]
    /\ resp' = [resp EXCEPT ![h] = NoResponse]
    /\ UNCHANGED <<server, testData, now, store, applications, nextId>>

\* a GET /applications/:candidateId with any of the inputs
ListStart(h) ==
  \E c \in CandidateIds \cup {Malformed} :
    ListRequest(h, c)

\* Candidate.findById completes: a malformed id rejects (catch: CastError),
\* no match is the 404; else up to `await Application.findByCandidate(...)`.
FindCandidate(h) ==
  /\ pc[h] = "findCandidate"
  /\ LET c == req[h].candidateId
     IN IF ~IsObjectId(c) THEN Respond(h, InvalidCandidateId(c))
        ELSE IF c \notin candidates THEN Respond(h, CandidateNotFound(c))
        ELSE /\ pc' = [pc EXCEPT ![h] = "findByCandidate"]
             /\ UNCHANGED resp
  /\ UNCHANGED <<server, testData, now, store, applications, nextId, started, req, loc>>

\* Application.findByCandidate completes, and the 200 is sent.
ListApplications(h) ==
  /\ pc[h] = "findByCandidate"
  /\ \E list \in FindByCandidate(applications, req[h].candidateId) :
       Respond(h, Found(req[h].candidateId, list))
  /\ UNCHANGED <<server, testData, now, store, applications, nextId, started, req, loc>>

\* ---- Job schema ---------------------------------------------------------
\* salary.min, salary.max
MinSalary == 0
MaxSalary == 10000000

\* A text is the tuple of its characters.  String.prototype.trim: the text
\* without its leading and trailing spaces.
RECURSIVE TrimStart(_)
TrimStart(t) ==
  IF t # <<>> /\ Head(t) = " " THEN TrimStart(Tail(t)) ELSE t

RECURSIVE TrimEnd(_)
TrimEnd(t) ==
  IF t # <<>> /\ t[Len(t)] = " " THEN TrimEnd(SubSeq(t, 1, Len(t) - 1))
  ELSE t

Trim(t) == TrimEnd(TrimStart(t))

\* A request's salary x is <<>> when the body has none, <<n>> for the
\* number n.  `!salary` of the POST /jobs handler: true for undefined and
\* for 0.
Falsy(x) == x = <<>> \/ x[1] = 0

\* Number(salary) of a number
Number(x) == x[1]

\* new Job({title: title.trim(), ..., salary: Number(salary), employerId})
NewJob(id, title, description, location, pay, employerId) ==
  [id |-> id, title |-> Trim(title), description |-> Trim(description),
   location |-> Trim(location), salary |-> Number(pay),
   employerId |-> employerId]

\* The paths of doc that fail the schema's validators at save(): the
\* `trim: true` setter, then required, minlength and maxlength of the
\* texts, min and max of salary, and the employer's existence.
JobValidationErrors(doc) ==
  {f \in {"title"} :
     Len(Trim(doc.title)) < 3 \/ Len(Trim(doc.title)) > 100}
  \cup {f \in {"description"} :
          Len(Trim(doc.description)) < 10 \/ Len(Trim(doc.description)) > 2000}
  \cup {f \in {"location"} :
          Len(Trim(doc.location)) < 2 \/ Len(Trim(doc.location)) > 100}
  \cup {f \in {"salary"} : doc.salary < MinSalary \/ doc.salary > MaxSalary}
  \cup {f \in {"employerId"} : doc.employerId \notin employers}

\* Variant for testing: every threshold belongs to the band below it.
GetSalaryRange_inclusive(pay) ==
  IF pay <= 50000 THEN "Entry Level"
  ELSE IF pay <= 100000 THEN "Mid Level"
  ELSE IF pay <= 200000 THEN "Senior Level"
  ELSE "Executive Level"

\* jobSchema.methods.getSalaryRange
GetSalaryRange(pay) ==
  IF pay < 50000 THEN "Entry Level"
  ELSE IF pay < 100000 THEN "Mid Level"
  ELSE IF pay < 200000 THEN "Senior Level"
  ELSE "Executive Level"

\* ---- POST /jobs ---------------------------------------------------------
JobValidationFailed(fields) ==
  [status |-> 400, error |-> TRUE, message |-> "Validation failed",
   details |-> fields]

InvalidEmployerId ==
  [status |-> 400, error |-> TRUE, message |-> "Invalid employer ID format",
   field |-> "employerId"]

JobCreated(doc) ==
  [status |-> 201, success |-> TRUE, message |-> "Job created successfully",
   data |-> [id |-> doc.id, title |-> doc.title,
             description |-> doc.description, location |-> doc.location,
             salary |-> doc.salary,
             salaryRange |-> GetSalaryRange(doc.salary),
             employer |-> doc.employerId]]

\* texts of n characters
Text(n) == [i \in 1..n |-> "x"]

EmployerIds == {"e1", "e9"}
\* no title, or one of three characters once trimmed
TitleInputs == {<<>>, <<" ", "d", "e", "v", " ">>}
\* a description of ten characters, or of nine once trimmed
DescriptionInputs == {Text(10), <<" ">> \o Text(9)}
LocationInputs == {<<>>, <<"N", "Y">>}
SalaryInputs ==
  {<<>>} \cup {<<n>> : n \in {-1, 0, 49999, 50000, 99999, 100000, 199999,
                              200000, 10000000, 10000001}}
EmployerInputs == EmployerIds \cup {Absent, Malformed}

\* Receipt of the request and the synchronous segment up to
\* `await Employer.findById(employerId)`: the five required-field tests.
JobRequest(h, t, d, l, s, e) ==
    /\ Free(h)
    /\ started < MaxRequests
    /\ started' = started + 1
    /\ req' = [req EXCEPT ![h] = [op |-> "job", title |-> t,
                                  description |-> d, location |-> l,
                                  salary |-> s, employerId |-> e]]
    /\ loc' = [loc EXCEPT ![h] = NoLocals]
    /\ IF t = <<>>
         THEN Respond(h, MissingField("title", "Job title is required"))
       ELSE IF d = <<>>
         THEN Respond(h, MissingField("description",
                                      "Job description is required"))
       ELSE IF l = <<>>
         THEN Respond(h, MissingField("location",
                                      "Job location is required"))
       ELSE IF Falsy(s)
         THEN Respond(h, MissingField("salary", "Salary is required"))
       ELSE IF e = Absent
         THEN Respond(h, MissingField("employerId",
                                      "Employer ID is required"))
       ELSE /\ pc' = [pc EXCEPT ![h] = "findEmployer"]
            /\ resp' = [resp EXCEPT ![h] = NoResponse]
    /\ UNCHANGED <<server, testData, now, store, applications, nextId>>

\* a POST /jobs with any of the inputs
JobStart(h) ==
  \E t \in TitleInputs, d \in DescriptionInputs, l \in LocationInputs,
     s \in SalaryInputs, e \in EmployerInputs :
    JobRequest(h, t, d, l, s, e)

\* Employer.findById completes: a malformed id rejects (catch: CastError),
\* no match is the 404; else `new Job(...)` up to `await newJob.save()`.
FindEmployer(h) ==
  /\ pc[h] = "findEmployer"
  /\ LET e == req[h].employerId
     IN IF ~IsObjectId(e)
          THEN /\ Respond(h, InvalidEmployerId)
               /\ UNCHANGED <<nextId, loc>>
        ELSE IF e \notin employers
          THEN /\ Respond(h, NotFound("employerId", "Employer not found"))
               /\ UNCHANGED <<nextId, loc>>
        ELSE /\ nextId' = nextId + 1
             /\ loc' = [loc EXCEPT ![h].newId = NewObjectId(nextId + 1)]
             /\ pc' = [pc EXCEPT ![h] = "saveJob"]
             /\ UNCHANGED resp
  /\ UNCHANGED <<server, testData, now, store, applications, started, req>>

\* the document held by the handler (newJob / savedJob)
JobDocument(h) ==
  NewJob(loc[h].newId, req[h].title, req[h].description, req[h].location,
         req[h].salary, req[h].employerId)

\* newJob.save() completes: schema validation, then the insert; up to
\* `await savedJob.populate(...)`.
SaveJob(h) ==
  /\ pc[h] = "saveJob"
  /\ IF JobValidationErrors(JobDocument(h)) # {}
       THEN /\ Respond(h, JobValidationFailed(
                             JobValidationErrors(JobDocument(h))))
            /\ UNCHANGED <<jobs, salary>>
     ELSE /\ jobs' = jobs \cup {JobDocument(h).id}
          /\ salary' = [j \in jobs \cup {JobDocument(h).id} |->
                          IF j \in jobs THEN salary[j]
                          ELSE JobDocument(h).salary]
          /\ pc' = [pc EXCEPT ![h] = "populateJob"]
          /\ UNCHANGED resp
  /\ UNCHANGED <<server, testData, now, employers, employerEmail,
                 candidates, candidateEmail, resumes, applications, nextId,
                 started, req, loc>>

\* populate completes; the 201 is built from the handler's own document.
PopulateJob(h) ==
  /\ pc[h] = "populateJob"
  /\ Respond(h, JobCreated(JobDocument(h)))
  /\ UNCHANGED <<server, testData, now, store, applications, nextId, started, req, loc>>

\* ---- Resume schema ------------------------------------------------------
\* String.prototype.lastIndexOf: the greatest 0-based index of ch in the
\* text t, -1 when t has none
LastIndexOf(t, ch) ==
  LET at == {i \in 1..Len(t) : t[i] = ch}
  IN IF at = {} THEN -1
     ELSE (CHOOSE i \in at : \A j \in at : j <= i) - 1

\* String.prototype.substring(from): the text from 0-based index from on
Substring(t, from) == SubSeq(t, from + 1, Len(t))

\* String.prototype.toLowerCase, on the letters the inputs use
LowerCase(ch) ==
  IF ch = "P" THEN "p" ELSE IF ch = "H" THEN "h" ELSE ch

ToLowerCase(t) == [i \in 1..Len(t) |-> LowerCase(t[i])]

\* 'unknown'
Unknown == <<"u", "n", "k", "n", "o", "w", "n">>

\* resumeSchema.methods.getFileExtension
GetFileExtension(fileUrl) ==
  LET lastDot == LastIndexOf(fileUrl, ".")
  IN IF lastDot > 0 THEN ToLowerCase(Substring(fileUrl, lastDot + 1))
     ELSE Unknown

\* new Resume({candidateId, fileUrl: fileUrl.trim()})
NewResume(id, candidateId, fileUrl) ==
  [id |-> id, candidateId |-> candidateId, fileUrl |-> Trim(fileUrl)]

\* The paths of doc that fail the schema's validators at save(): the
\* candidate exists; fileUrl, once trimmed, is not empty (its format
\* validator accepts every text of one character or more).
ResumeValidationErrors(doc) ==
  {f \in {"candidateId"} : doc.candidateId \notin candidates}
  \cup {f \in {"fileUrl"} : Trim(doc.fileUrl) = <<>>}

\* ---- POST /resumes -----------------------------------------------------
ResumeValidationFailed(fields) ==
  [status |-> 400, error |-> TRUE, message |-> "Validation failed",
   details |-> fields]

InvalidCandidateIdField ==
  [status |-> 400, error |-> TRUE, message |-> "Invalid candidate ID format",
   field |-> "candidateId"]

ResumeCreated(doc) ==
  [status |-> 201, success |-> TRUE,
   message |-> "Resume created successfully",
   data |-> [id |-> doc.id, fileUrl |-> doc.fileUrl,
             fileExtension |-> GetFileExtension(doc.fileUrl),
             candidate |-> doc.candidateId]]

\* //h.c/r.p, //h.c/r, /d/r.P, r, a blank, and no fileUrl
FileUrlInputs ==
  {<<"/", "/", "h", ".", "c", "/", "r", ".", "p">>,
   <<"/", "/", "h", ".", "c", "/", "r">>,
   <<"/", "d", "/", "r", ".", "P">>,
   <<"r">>,
   <<" ">>,
   <<>>}

\* Receipt of the request and the synchronous segment up to
\* `await Candidate.findById(candidateId)`: the two required-field tests.
ResumeRequest(h, c, u) ==
    /\ Free(h)
    /\ started < MaxRequests
    /\ started' = started + 1
    /\ req' = [req EXCEPT ![h] = [op |-> "resume", candidateId |-> c,
                                  fileUrl |-> u]]
    /\ loc' = [loc EXCEPT ![h] = NoLocals]
    /\ IF c = Absent
         THEN Respond(h, MissingField("candidateId",
                                      "Candidate ID is required"))
       ELSE IF u = <<>>
         THEN Respond(h, MissingField("fileUrl",
                                      "Resume file URL is required"))
       ELSE /\ pc' = [pc EXCEPT ![h] = "findResumeCandidate"]
            /\ resp' = [resp EXCEPT ![h] = NoResponse]
    /\ UNCHANGED <<server, testData, now, store, applications, nextId>>

\* a POST /resumes with any of the inputs
ResumeStart(h) ==
  \E c \in CandidateInputs, u \in FileUrlInputs :
    ResumeRequest(h, c, u)

\* Candidate.findById completes: a malformed id rejects (catch: CastError),
\* no match is the 404; else `new Resume(...)` up to `await newResume.save()`.
FindResumeCandidate(h) ==
  /\ pc[h] = "findResumeCandidate"
  /\ LET c == req[h].candidateId
     IN IF ~IsObjectId(c)
          THEN /\ Respond(h, InvalidCandidateIdField)
               /\ UNCHANGED <<nextId, loc>>
        ELSE IF c \notin candidates
          THEN /\ Respond(h, NotFound("candidateId", "Candidate not found"))
               /\ UNCHANGED <<nextId, loc>>
        ELSE /\ nextId' = nextId + 1
             /\ loc' = [loc EXCEPT ![h].newId = NewObjectId(nextId + 1)]
             /\ pc' = [pc EXCEPT ![h] = "saveResume"]
             /\ UNCHANGED resp
  /\ UNCHANGED <<server, testData, now, store, applications, started, req>>

\* the document held by the handler (newResume / savedResume)
ResumeDocument(h) ==
  NewResume(loc[h].newId, req[h].candidateId, req[h].fileUrl)

\* newResume.save() completes: schema validation, then the insert; up to
\* `await savedResume.populate(...)`.
SaveResume(h) ==
  /\ pc[h] = "saveResume"
  /\ IF ResumeValidationErrors(ResumeDocument(h)) # {}
       THEN /\ Respond(h, ResumeValidationFailed(
                             ResumeValidationErrors(ResumeDocument(h))))
            /\ UNCHANGED resumes
     ELSE /\ resumes' = [r \in DOMAIN resumes \cup {ResumeDocument(h).id} |->
                           IF r \in DOMAIN resumes THEN resumes[r]
                           ELSE ResumeDocument(h).candidateId]
          /\ pc' = [pc EXCEPT ![h] = "populateResume"]
          /\ UNCHANGED resp
  /\ UNCHANGED <<server, testData, now, employers, employerEmail, jobs,
                 salary, candidates, candidateEmail, applications, nextId,
                 started, req, loc>>

\* populate completes; the 201 is built from the handler's own document.
PopulateResume(h) ==
  /\ pc[h] = "populateResume"
  /\ Respond(h, ResumeCreated(ResumeDocument(h)))
  /\ UNCHANGED <<server, testData, now, store, applications, nextId, started,
                 req, loc>>

\* ---- Employer and Candidate schemas -------------------------------------
\* email.match: /^[^\s@]+@[^\s@]+\.[^\s@]+$/ -- one '@', no blank, a text
\* before the '@', and after it a '.' with a text on either side
EmailMatch(t) ==
  \E i, j \in 1..Len(t) :
    /\ 1 < i /\ i + 1 < j /\ j < Len(t)
    /\ t[i] = "@" /\ t[j] = "."
    /\ \A k \in 1..Len(t) : k # i => t[k] \notin {" ", "@"}

\* The paths that fail the validators of employerSchema, and alike of
\* candidateSchema, at save(): the name of 2 to 100 characters once trimmed
\* (field: companyName or name), the email matching once trimmed and
\* lower-cased.
AccountValidationErrors(field, name, email) ==
  {f \in {field} : Len(Trim(name)) < 2 \/ Len(Trim(name)) > 100}
  \cup {f \in {"email"} : ~EmailMatch(ToLowerCase(Trim(email)))}

\* Variant for testing: email without its unique index.
EmailIndexViolated_none(emails, email) == FALSE

\* email: {unique: true} -- an insert of a document with this email is
\* rejected (E11000) when a stored document has the same email; emails is
\* the collection's _id -> email.
EmailIndexViolated(emails, email) ==
  \E id \in DOMAIN emails : emails[id] = email

\* statics.findByEmail: findOne({email: email.toLowerCase()}).  Whether the
\* query also trims the text depends on the library applying the schema's
\* setters to the filter: either may happen.
FindByEmail(emails, email) ==
  {q \in {ToLowerCase(email), Trim(ToLowerCase(email))} :
     \E id \in DOMAIN emails : emails[id] = q}

\* ---- POST /employers and POST /candidates -------------------------------
EmailTaken(message) ==
  [status |-> 409, error |-> TRUE, message |-> message, field |-> "email"]

AccountValidationFailed(fields) ==
  [status |-> 400, error |-> TRUE, message |-> "Validation failed",
   details |-> fields]

AccountCreated(message, id, name, email) ==
  [status |-> 201, success |-> TRUE, message |-> message,
   data |-> [id |-> id, name |-> name, email |-> email]]

\* no name or 'TC'; no email, h@t.c, H@t.c, h@t.c after a blank, n@t.c, n@t
NameInputs == {<<>>, <<"T", "C">>}
EmailInputs ==
  {<<>>,
   <<"h", "@", "t", ".", "c">>,
   <<"H", "@", "t", ".", "c">>,
   <<" ", "h", "@", "t", ".", "c">>,
   <<"n", "@", "t", ".", "c">>,
   <<"n", "@", "t">>}

\* POST /employers: receipt of the request and the synchronous segment up to
\* `await Employer.findByEmail(email)`.
EmployerStart(h) ==
  \E n \in NameInputs, e \in EmailInputs :
    /\ Free(h)
    /\ started < MaxRequests
    /\ started' = started + 1
    /\ req' = [req EXCEPT ![h] = [op |-> "employer", name |-> n,
                                  email |-> e]]
    /\ loc' = [loc EXCEPT ![h] = NoLocals]
    /\ IF n = <<>>
         THEN Respond(h, MissingField("companyName",
                                      "Company name is required"))
       ELSE IF e = <<>>
         THEN Respond(h, MissingField("email", "Email is required"))
       ELSE /\ pc' = [pc EXCEPT ![h] = "findEmployerByEmail"]
            /\ resp' = [resp EXCEPT ![h] = NoResponse]
    /\ UNCHANGED <<server, testData, now, store, applications, nextId>>

\* Employer.findByEmail completes: the duplicate pre-check, then
\* `new Employer(...)` up to `await newEmployer.save()`.
FindEmployerByEmail(h) ==
  /\ pc[h] = "findEmployerByEmail"
  /\ \/ /\ FindByEmail(employerEmail, req[h].email) # {}
        /\ Respond(h, EmailTaken("An employer with this email already exists"))
        /\ UNCHANGED <<nextId, loc>>
     \/ /\ FindByEmail(employerEmail, req[h].email)
             # {ToLowerCase(req[h].email), Trim(ToLowerCase(req[h].email))}
        /\ nextId' = nextId + 1
        /\ loc' = [loc EXCEPT ![h].newId = NewObjectId(nextId + 1)]
        /\ pc' = [pc EXCEPT ![h] = "saveEmployer"]
        /\ UNCHANGED resp
  /\ UNCHANGED <<server, testData, now, store, applications, started, req>>

\* newEmployer.save() completes: schema validation, then the insert under
\* the unique index, and the 201 is sent.
SaveEmployer(h) ==
  /\ pc[h] = "saveEmployer"
  /\ LET id == loc[h].newId
         name == Trim(req[h].name)
         email == ToLowerCase(Trim(req[h].email))
         errors == AccountValidationErrors("companyName", name, email)
     IN IF errors # {}
          THEN /\ Respond(h, AccountValidationFailed(errors))
               /\ UNCHANGED <<employers, employerEmail>>
        ELSE IF EmailIndexViolated(employerEmail, email)
          THEN /\ Respond(h, EmailTaken(
                               "An employer with this email already exists"))
               /\ UNCHANGED <<employers, employerEmail>>
        ELSE /\ employers' = employers \cup {id}
             /\ employerEmail' = [e \in employers \cup {id} |->
                                    IF e \in employers THEN employerEmail[e]
                                    ELSE email]
             /\ Respond(h, AccountCreated("Employer created successfully",
                                          id, name, email))
  /\ UNCHANGED <<server, testData, now, jobs, salary, candidates,
                 candidateEmail, resumes, applications, nextId, started,
                 req, loc>>

\* POST /candidates: receipt of the request and the synchronous segment up
\* to `await Candidate.findByEmail(email)`.
CandidateStart(h) ==
  \E n \in NameInputs, e \in EmailInputs :
    /\ Free(h)
    /\ started < MaxRequests
    /\ started' = started + 1
    /\ req' = [req EXCEPT ![h] = [op |-> "candidate", name |-> n,
                                  email |-> e]]
    /\ loc' = [loc EXCEPT ![h] = NoLocals]
    /\ IF n = <<>>
         THEN Respond(h, MissingField("name", "Candidate name is required"))
       ELSE IF e = <<>>
         THEN Respond(h, MissingField("email", "Email is required"))
       ELSE /\ pc' = [pc EXCEPT ![h] = "findCandidateByEmail"]
            /\ resp' = [resp EXCEPT ![h] = NoResponse]
    /\ UNCHANGED <<server, testData, now, store, applications, nextId>>

\* Candidate.findByEmail completes: the duplicate pre-check, then
\* `new Candidate(...)` up to `await newCandidate.save()`.
FindCandidateByEmail(h) ==
  /\ pc[h] = "findCandidateByEmail"
  /\ \/ /\ FindByEmail(candidateEmail, req[h].email) # {}
        /\ Respond(h, EmailTaken("A candidate with this email already exists"))
        /\ UNCHANGED <<nextId, loc>>
     \/ /\ FindByEmail(candidateEmail, req[h].email)
             # {ToLowerCase(req[h].email), Trim(ToLowerCase(req[h].email))}
        /\ nextId' = nextId + 1
        /\ loc' = [loc EXCEPT ![h].newId = NewObjectId(nextId + 1)]
        /\ pc' = [pc EXCEPT ![h] = "saveCandidate"]
        /\ UNCHANGED resp
  /\ UNCHANGED <<server, testData, now, store, applications, started, req>>

\* newCandidate.save() completes: schema validation, then the insert under
\* the unique index, and the 201 is sent.
SaveCandidate(h) ==
  /\ pc[h] = "saveCandidate"
  /\ LET id == loc[h].newId
         name == Trim(req[h].name)
         email == ToLowerCase(Trim(req[h].email))
         errors == AccountValidationErrors("name", name, email)
     IN IF errors # {}
          THEN /\ Respond(h, AccountValidationFailed(errors))
               /\ UNCHANGED <<candidates, candidateEmail>>
        ELSE IF EmailIndexViolated(candidateEmail, email)
          THEN /\ Respond(h, EmailTaken(
                               "A candidate with this email already exists"))
               /\ UNCHANGED <<candidates, candidateEmail>>
        ELSE /\ candidates' = candidates \cup {id}
             /\ candidateEmail' = [c \in candidates \cup {id} |->
                                     IF c \in candidates
                                       THEN candidateEmail[c]
                                     ELSE email]
             /\ Respond(h, AccountCreated("Candidate created successfully",
                                          id, name, email))
  /\ UNCHANGED <<server, testData, now, employers, employerEmail, jobs,
                 salary, resumes, applications, nextId, started, req, loc>>

\* ---- store errors -------------------------------------------------------
\* Variant for testing: the catch block throws the error on.
Failed_rethrown(op) == NoResponse

\* the last branch of the catch block of the handler of op: any other error
Failed(op) ==
  [status |-> 500, error |-> TRUE,
   message |-> IF op = "apply" THEN "Failed to submit application"
               ELSE IF op = "list"
                 THEN "Failed to fetch candidate applications"
               ELSE "Failed to update application status",
   details |-> "error.message"]

\* the positions at which the application handlers await the store
Awaiting ==
  {"lookups", "findOne", "save", "populate", "findByIdAndUpdate",
   "findCandidate", "findByCandidate"}

\* The awaited store operation rejects with an error that is neither a
\* validation, a duplicate-key nor a cast error (the connection is lost,
\* say): the catch block answers 500.  The operation has written nothing.
StoreError(h) ==
  /\ pc[h] \in Awaiting
  /\ Respond(h, Failed(req[h].op))
  /\ UNCHANGED <<server, testData, now, store, applications, nextId, started,
                 req, loc>>

\* ---- the clock ---------------------------------------------------------
Tick ==
  /\ now < MaxTime
  /\ now' = now + 1
  /\ UNCHANGED <<server, testData, store, applications, nextId, started, pc,
                 req, loc, resp>>

\* ---- specifications -----------------------------------------------------
\* A request whose identifiers are all present and cast to ObjectIds, and
\* whose body holds the documented fields only.
WellFormed(r) ==
  IF r.op = "apply"
    THEN /\ r.jobId \in JobIds
         /\ r.candidateId \in CandidateIds
         /\ r.resumeId \in ResumeIds
         /\ r.status = Absent
    ELSE /\ r.id \in ApplicationIds
         /\ r.status # Absent

ReceiveApply(h) == ApplyStart(h) /\ WellFormed(req'[h])
ReceiveUpdate(h) == UpdateStart(h) /\ WellFormed(req'[h])

\* Spec: the handlers serve well-formed requests concurrently; the steps of
\* two requests interleave at every await.
Next ==
  \E h \in Handlers :
    \/ ReceiveApply(h)
    \/ ResolveReferences(h)
    \/ CheckExisting(h)
    \/ Save(h)
    \/ Populate(h)
    \/ ReceiveUpdate(h)
    \/ FindByIdAndUpdate(h)

Spec == Init /\ [][Next]_vars

\* SpecSerial: one request at a time, with every kind of input (absent and
\* malformed fields included).
NextSerial ==
  \/ ApplyStart("h1")
  \/ ResolveReferences("h1")
  \/ CheckExisting("h1")
  \/ Save("h1")
  \/ Populate("h1")
  \/ UpdateStart("h1")
  \/ FindByIdAndUpdate("h1")

SpecSerial == Init /\ [][NextSerial]_vars

\* SpecList: one well-formed request at a time while the clock runs, over a
\* store with two jobs, so that a candidate can hold two applications.
InitList ==
  /\ Seeded
  /\ now = 0
  /\ employers = {"e1"}
  /\ jobs = {"j1", "j9"}
  /\ salary = [j \in {"j1", "j9"} |-> IF j = "j1" THEN 75000 ELSE 120000]
  /\ candidates = {"c1", "c2"}
  /\ resumes = [r \in {"r1", "r2", "r3"} |->
                  IF r = "r2" THEN "c2" ELSE "c1"]
  /\ applications = {}
  /\ nextId = 0
  /\ started = 0
  /\ pc = [h \in Handlers |-> "idle"]
  /\ req = [h \in Handlers |-> NoRequest]
  /\ loc = [h \in Handlers |-> NoLocals]
  /\ resp = [h \in Handlers |-> NoResponse]

NextList ==
  \/ Tick
  \/ ReceiveApply("h1")
  \/ ResolveReferences("h1")
  \/ CheckExisting("h1")
  \/ Save("h1")
  \/ Populate("h1")
  \/ ReceiveUpdate("h1")
  \/ FindByIdAndUpdate("h1")
  \/ ListStart("h1")
  \/ FindCandidate("h1")
  \/ ListApplications("h1")

SpecList == InitList /\ [][NextList]_vars

\* SpecJob: job postings, one request at a time, with every kind of input.
NextJob ==
  \/ JobStart("h1")
  \/ FindEmployer("h1")
  \/ SaveJob("h1")
  \/ PopulateJob("h1")

SpecJob == Init /\ [][NextJob]_vars

\* SpecResume: resume uploads, one request at a time, with every kind of
\* input.
NextResume ==
  \/ ResumeStart("h1")
  \/ FindResumeCandidate("h1")
  \/ SaveResume("h1")
  \/ PopulateResume("h1")

SpecResume == Init /\ [][NextResume]_vars

\* A job posting whose title, description, location and salary pass every
\* test.
PlainJob(r) ==
  /\ r.title # <<>>
  /\ r.description = Text(10)
  /\ r.location # <<>>
  /\ r.salary \in {<<50000>>, <<200000>>}

ReceiveJob(h) == JobStart(h) /\ PlainJob(req'[h])

\* SpecCreate: job postings and resume uploads, one request at a time.
NextCreate ==
  \/ ReceiveJob("h1")
  \/ FindEmployer("h1")
  \/ SaveJob("h1")
  \/ PopulateJob("h1")
  \/ ResumeStart("h1")
  \/ FindResumeCandidate("h1")
  \/ SaveResume("h1")
  \/ PopulateResume("h1")

SpecCreate == Init /\ [][NextCreate]_vars

\* SpecAccounts: the handlers serve employer and candidate registrations
\* concurrently; the steps of two requests interleave at every await.
NextAccounts ==
  \E h \in Handlers :
    \/ EmployerStart(h)
    \/ FindEmployerByEmail(h)
    \/ SaveEmployer(h)
    \/ CandidateStart(h)
    \/ FindCandidateByEmail(h)
    \/ SaveCandidate(h)

SpecAccounts == Init /\ [][NextAccounts]_vars

\* SpecFaulty: one request at a time to the application routes, with every
\* kind of input, over a store whose operations may fail.
NextFaulty ==
  \/ ApplyStart("h1")
  \/ ResolveReferences("h1")
  \/ CheckExisting("h1")
  \/ Save("h1")
  \/ Populate("h1")
  \/ UpdateStart("h1")
  \/ FindByIdAndUpdate("h1")
  \/ ListStart("h1")
  \/ FindCandidate("h1")
  \/ ListApplications("h1")
  \/ StoreError("h1")

SpecFaulty == Init /\ [][NextFaulty]_vars

\* ---- the age of an application ------------------------------------------
\* Math.abs
Abs(x) == IF x < 0 THEN 0 - x ELSE x

\* 1000 * 60 * 60 * 24, the milliseconds of a day
MsPerDay == 1000 * 60 * 60 * 24

\* Variant for testing: whole days elapsed (Math.floor).
GetDaysOld_floor(appliedAt, at) == Abs(at - appliedAt) \div MsPerDay

\* applicationSchema.methods.getDaysOld at time at:
\* Math.ceil(Math.abs(now - applied) / (1000 * 60 * 60 * 24))
GetDaysOld(appliedAt, at) ==
  LET diffTime == Abs(at - appliedAt)
  IN IF diffTime % MsPerDay = 0 THEN diffTime \div MsPerDay
     ELSE diffTime \div MsPerDay + 1

\* the daysOld of the entries of formattedApplications, computed when the
\* response is built
DaysOld(list, at) ==
  [i \in 1..Len(list) |-> GetDaysOld(list[i].appliedAt, at)]

\* Application.findByCandidate completes, and the 200 is sent: the response
\* of ListApplications together with the daysOld of its entries.
ListApplicationsAged(h) ==
  /\ pc[h] = "findByCandidate"
  /\ \E list \in FindByCandidate(applications, req[h].candidateId) :
       Respond(h, Found(req[h].candidateId, list)
                    @@ [daysOld |-> DaysOld(list, now)])
  /\ UNCHANGED <<server, testData, now, store, applications, nextId, started,
                 req, loc>>

\* Instants of the clock, in milliseconds: around one day and two days
\* after 0.
Instants ==
  {0, 1, MsPerDay - 1, MsPerDay, MsPerDay + 1, 2 * MsPerDay,
   2 * MsPerDay + 1}

\* time passes
Advance ==
  /\ \E t \in Instants : t > now /\ now' = t
  /\ UNCHANGED <<server, testData, store, applications, nextId, started, pc,
                 req, loc, resp>>

\* the document of an application of candidate c1 for job submitted at t
SubmittedAt(id, job, t) ==
  Stamped(NewApplication(id, job, "c1", "r1", t), t)

\* SpecDays: candidate c1 applied for the two jobs at some instants; the
\* applications are listed while time passes.
InitDays ==
  /\ Seeded
  /\ now \in Instants
  /\ employers = {"e1"}
  /\ jobs = {"j1", "j9"}
  /\ salary = [j \in {"j1", "j9"} |-> IF j = "j1" THEN 75000 ELSE 120000]
  /\ candidates = {"c1", "c2"}
  /\ resumes = [r \in {"r1", "r2", "r3"} |->
                  IF r = "r2" THEN "c2" ELSE "c1"]
  /\ \E t1, t2 \in Instants :
       /\ t1 <= now /\ t2 <= now
       /\ applications = {SubmittedAt(NewObjectId(1), "j1", t1),
                          SubmittedAt(NewObjectId(2), "j9", t2)}
  /\ nextId = 2
  /\ started = 0
  /\ pc = [h \in Handlers |-> "idle"]
  /\ req = [h \in Handlers |-> NoRequest]
  /\ loc = [h \in Handlers |-> NoLocals]
  /\ resp = [h \in Handlers |-> NoResponse]

NextDays ==
  \/ Advance
  \/ ListRequest("h1", "c1")
  \/ FindCandidate("h1")
  \/ ListApplicationsAged("h1")

SpecDays == InitDays /\ [][NextDays]_vars

\* ---- GET /jobs/search ---------------------------------------------------
\* A query parameter is <<>> when the query string has none, <<n>> when it
\* is the decimal text of the number n; in the handler a parameter that is
\* present is a non-empty string, which is truthy whatever its number.
Given(x) == x # <<>>

\* Job.findBySalaryRange(minSalary, maxSalary), with <<>> for null: the
\* jobs that pass the tests the query holds, in an order of descending
\* salary.  `if (minSalary)` and `if (maxSalary)` add a test for a bound
\* that is neither null nor 0.
FindBySalaryRange(minSalary, maxSalary) ==
  LET found == {j \in jobs :
                  /\ Falsy(minSalary) \/ salary[j] >= Number(minSalary)
                  /\ Falsy(maxSalary) \/ salary[j] <= Number(maxSalary)}
  IN {l \in Orderings(found) :
        \A i, j \in 1..Len(l) : i < j => salary[l[i]] >= salary[l[j]]}

JobsFound(list) ==
  [status |-> 200, success |-> TRUE, count |-> Len(list),
   data |-> [i \in 1..Len(list) |->
               [id |-> list[i], salary |-> salary[list[i]],
                salaryRange |-> GetSalaryRange(salary[list[i]])]]]

\* no bound, 0, and bounds below, at, between and above the stored salaries
BoundInputs == {<<>>} \cup {<<n>> : n \in {0, 50000, 75000, 100000, 200000}}

\* Receipt of a search with minSalary and/or maxSalary, up to
\* `await Job.findBySalaryRange(...)`.  A search with neither goes to
\* Job.searchJobs and is not among the inputs.
SearchRequest(h, min, max) ==
  /\ Free(h)
  /\ started < MaxRequests
  /\ started' = started + 1
  /\ Given(min) \/ Given(max)
  /\ req' = [req EXCEPT ![h] = [op |-> "search", minSalary |-> min,
                                maxSalary |-> max]]
  /\ loc' = [loc EXCEPT ![h] = NoLocals]
  /\ pc' = [pc EXCEPT ![h] = "findBySalaryRange"]
  /\ resp' = [resp EXCEPT ![h] = NoResponse]
  /\ UNCHANGED <<server, testData, now, store, applications, nextId>>

SearchStart(h) ==
  \E min, max \in BoundInputs : SearchRequest(h, min, max)

\* Job.findBySalaryRange(minSalary ? Number(minSalary) : null,
\* maxSalary ? Number(maxSalary) : null) completes, and the 200 is sent.
SearchJobsBySalary(h) ==
  /\ pc[h] = "findBySalaryRange"
  /\ \E list \in FindBySalaryRange(
                   IF Given(req[h].minSalary) THEN req[h].minSalary
                   ELSE <<>>,
                   IF Given(req[h].maxSalary) THEN req[h].maxSalary
                   ELSE <<>>) :
       Respond(h, JobsFound(list))
  /\ UNCHANGED <<server, testData, now, store, applications, nextId, started,
                 req, loc>>

\* SpecSearch: job postings and salary searches, one request at a time.
NextSearch ==
  \/ ReceiveJob("h1")
  \/ FindEmployer("h1")
  \/ SaveJob("h1")
  \/ PopulateJob("h1")
  \/ SearchStart("h1")
  \/ SearchJobsBySalary("h1")

SpecSearch == Init /\ [][NextSearch]_vars

\* ---- server start-up ----------------------------------------------------
\* the process has been launched: startServer() has called
\* connectToDatabase(), which awaits mongoose.connect(...)
Starting == [connected |-> FALSE, listening |-> FALSE, exitCode |-> <<>>]

\* the process has not exited
Running == server.exitCode = <<>>

\* mongoose.connect resolves
Connect ==
  /\ Running
  /\ ~server.connected
  /\ server' = [server EXCEPT !.connected = TRUE]
  /\ UNCHANGED <<testData, now, store, applications, nextId, started, pc,
                 req, loc, resp>>

\* mongoose.connect rejects: the catch block of connectToDatabase ends the
\* process with process.exit(1)
ConnectFailed ==
  /\ Running
  /\ ~server.connected
  /\ server' = [server EXCEPT !.listening = FALSE, !.exitCode = <<1>>]
  /\ UNCHANGED <<testData, now, store, applications, nextId, started, pc,
                 req, loc, resp>>

\* Variant for testing: startServer calls connectToDatabase() without
\* awaiting it.
Connected_unawaited(s) == TRUE

\* `await connectToDatabase()` has returned
Connected(s) == s.connected

\* app.listen(PORT, ...), the statement after `await connectToDatabase()`
Listen ==
  /\ Running
  /\ Connected(server)
  /\ ~server.listening
  /\ server' = [server EXCEPT !.listening = TRUE]
  /\ UNCHANGED <<testData, now, store, applications, nextId, started, pc,
                 req, loc, resp>>

\* a request reaches a handler only through the listening socket
Accepting == Running /\ server.listening

\* The store holds the records of earlier runs; the process has just been
\* launched.
InitStartup ==
  /\ server = Starting
  /\ testData = NoTestData
  /\ now = 0
  /\ employers = {"e1"}
  /\ employerEmail = [e \in {"e1"} |-> <<"h", "@", "t", ".", "c">>]
  /\ jobs = {"j1"}
  /\ salary = [j \in {"j1"} |-> 75000]
  /\ candidates = {"c1", "c2"}
  /\ candidateEmail = [c \in {"c1", "c2"} |->
                         IF c = "c1" THEN <<"j", "@", "t", ".", "c">>
                         ELSE <<"k", "@", "t", ".", "c">>]
  /\ resumes = [r \in {"r1", "r2", "r3"} |->
                  IF r = "r2" THEN "c2" ELSE "c1"]
  /\ applications = {}
  /\ nextId = 0
  /\ started = 0
  /\ pc = [h \in Handlers |-> "idle"]
  /\ req = [h \in Handlers |-> NoRequest]
  /\ loc = [h \in Handlers |-> NoLocals]
  /\ resp = [h \in Handlers |-> NoResponse]

\* SpecStartup: the process from its launch; once it listens it serves
\* applications and lists, one request at a time.
NextStartup ==
  \/ Connect
  \/ ConnectFailed
  \/ Listen
  \/ Accepting /\ ApplyStart("h1")
  \/ Running /\ ResolveReferences("h1")
  \/ Running /\ CheckExisting("h1")
  \/ Running /\ Save("h1")
  \/ Running /\ Populate("h1")
  \/ Accepting /\ ListStart("h1")
  \/ Running /\ FindCandidate("h1")
  \/ Running /\ ListApplications("h1")

SpecStartup == InitStartup /\ [][NextStartup]_vars

\* ---- the test client ----------------------------------------------------
\* The requests of runAllTests that write or read applications, in order;
\* its GET /, GET /jobs and GET /jobs/search change nothing and are left
\* out.  Position 8: all tests completed; 9: a request was answered with
\* an error status, apiRequest threw and runAllTests ended in its catch.
TestOps ==
  <<"employer", "job", "candidate", "resume", "apply", "list", "update">>
Completed == Len(TestOps) + 1
TestFailed == Len(TestOps) + 2

\* the client is at test k and has not sent its request yet
AtTest(k) == testData.test = k /\ req["h1"].op # TestOps[k]

TestCreateEmployer == AtTest(1) /\ EmployerStart("h1")

TestCreateJob ==
  /\ AtTest(2)
  /\ \E t \in TitleInputs, d \in DescriptionInputs, l \in LocationInputs,
        s \in SalaryInputs :
       JobRequest("h1", t, d, l, s, testData.employer)
  /\ PlainJob(req'["h1"])

TestCreateCandidate == AtTest(3) /\ CandidateStart("h1")

TestCreateResume ==
  /\ AtTest(4)
  /\ \E u \in FileUrlInputs : ResumeRequest("h1", testData.candidate, u)

TestSubmitApplication ==
  /\ AtTest(5)
  /\ ApplyRequest("h1", testData.job, testData.candidate, testData.resume,
                  Absent)

TestGetCandidateApplications ==
  /\ AtTest(6)
  /\ ListRequest("h1", testData.candidate)

TestUpdateApplicationStatus ==
  /\ AtTest(7)
  /\ UpdateRequest("h1", testData.application, "shortlisted")

\* `const response = await apiRequest(...)` returns or throws: the client
\* keeps response.data and goes on to the next test, or ends.
TestResponse ==
  /\ testData.test \in 1..Len(TestOps)
  /\ pc["h1"] = "done"
  /\ req["h1"].op = TestOps[testData.test]
  /\ LET k == testData.test
         r == resp["h1"]
         next == [testData EXCEPT !.test = k + 1]
     IN testData' =
          IF r.status \notin {200, 201}
            THEN [testData EXCEPT !.test = TestFailed]
          ELSE IF k = 1 THEN [next EXCEPT !.employer = r.data.id]
          ELSE IF k = 2 THEN [next EXCEPT !.job = r.data.id]
          ELSE IF k = 3 THEN [next EXCEPT !.candidate = r.data.id]
          ELSE IF k = 4 THEN [next EXCEPT !.resume = r.data.id]
          ELSE IF k = 5 THEN [next EXCEPT !.application = r.data.id,
                                          !.appliedAt = r.data.appliedAt]
          ELSE next
  /\ UNCHANGED <<server, now, store, applications, nextId, started, pc, req,
                 loc, resp>>

\* The server listens over an empty store and the test client starts; the
\* four requests that set the records up are not counted against
\* MaxRequests.
InitFlow ==
  /\ server = Listening
  /\ testData = [NoTestData EXCEPT !.test = 1]
  /\ now = 0
  /\ employers = {}
  /\ employerEmail = [e \in {} |-> <<>>]
  /\ jobs = {}
  /\ salary = [j \in {} |-> 0]
  /\ candidates = {}
  /\ candidateEmail = [c \in {} |-> <<>>]
  /\ resumes = [r \in {} |-> Absent]
  /\ applications = {}
  /\ nextId = 0
  /\ started = 0 - 4
  /\ pc = [h \in Handlers |-> "idle"]
  /\ req = [h \in Handlers |-> NoRequest]
  /\ loc = [h \in Handlers |-> NoLocals]
  /\ resp = [h \in Handlers |-> NoResponse]

\* SpecFlow: the test client's run against a server with an empty store,
\* while time passes.
NextFlow ==
  \/ TestCreateEmployer
  \/ FindEmployerByEmail("h1")
  \/ SaveEmployer("h1")
  \/ TestCreateJob
  \/ FindEmployer("h1")
  \/ SaveJob("h1")
  \/ PopulateJob("h1")
  \/ TestCreateCandidate
  \/ FindCandidateByEmail("h1")
  \/ SaveCandidate("h1")
  \/ TestCreateResume
  \/ FindResumeCandidate("h1")
  \/ SaveResume("h1")
  \/ PopulateResume("h1")
  \/ TestSubmitApplication
  \/ ResolveReferences("h1")
  \/ CheckExisting("h1")
  \/ Save("h1")
  \/ Populate("h1")
  \/ TestGetCandidateApplications
  \/ FindCandidate("h1")
  \/ ListApplications("h1")
  \/ TestUpdateApplicationStatus
  \/ FindByIdAndUpdate("h1")
  \/ TestResponse
  \/ Tick

SpecFlow == InitFlow /\ [][NextFlow]_vars

TypeOK ==
  /\ applications \subseteq
       [id : ApplicationIds, jobId : JobIds, candidateId : CandidateIds,
        resumeId : ResumeIds, status : StatusEnum,
        appliedAt : 0..MaxTime, updatedAt : 0..MaxTime]
  /\ now \in 0..MaxTime
  /\ DOMAIN salary = jobs
  /\ \A j \in jobs : salary[j] \in MinSalary..MaxSalary
  /\ nextId \in 0..MaxRequests
  /\ started \in 0..MaxRequests

\* ---- properties ---------------------------------------------------------
SamePair(x, y) == x.candidateId = y.candidateId /\ x.jobId = y.jobId

\* a finished POST /apply
DoneApply(h) == pc[h] = "done" /\ req[h].op = "apply"

\* a finished PUT /applications/:id
DoneUpdate(h) == pc[h] = "done" /\ req[h].op = "update"

\* the request's references are all valid: the job, the candidate and the
\* resume exist and the resume belongs to the candidate
ValidReferences(r) ==
  /\ r.jobId \in jobs
  /\ r.candidateId \in candidates
  /\ r.resumeId \in DOMAIN resumes
  /\ resumes[r.resumeId] = r.candidateId

\* the handler got past the duplicate pre-check (it built its document)
PassedPreCheck(h) == loc[h].newId # Absent

\* C1: in every reachable state, under any interleaving of create and
\* status-update requests, the store holds at most one Application for each
\* (candidateId, jobId) pair.
C1_UniquePair ==
  \A a, b \in applications : SamePair(a, b) => a = b

\* C1 witness: an application is stored, a status update has been applied
\* to it, and a create for its pair that got past the pre-check has been
\* turned away by the index.
C1_Witness ==
  \E a \in applications, h \in Handlers :
    /\ a.status # DefaultStatus
    /\ DoneApply(h)
    /\ SamePair(req[h], a)
    /\ PassedPreCheck(h)
    /\ resp[h].status = 409

\* the stored applications for the request's (candidateId, jobId) pair
StoredFor(r) == {a \in applications : SamePair(a, r)}

\* two creates for one pair with valid references that both got past the
\* duplicate pre-check, hence before either saved, and have both answered
Raced(h, g) ==
  /\ h # g
  /\ DoneApply(h) /\ DoneApply(g)
  /\ SamePair(req[h], req[g])
  /\ ValidReferences(req[h]) /\ ValidReferences(req[g])
  /\ PassedPreCheck(h) /\ PassedPreCheck(g)

\* C2: when two creates for the same pair with valid references both pass
\* the findOne pre-check before either saves, exactly one persists its
\* Application and answers 201; the other persists nothing and answers 409.
C2_RaceOneWinner ==
  \A h, g \in Handlers :
    Raced(h, g) =>
      \E w \in {h, g} :
        LET l == CHOOSE x \in {h, g} : x # w
        IN /\ resp[w].status = 201
           /\ resp[l].status = 409
           /\ {a.id : a \in StoredFor(req[h])} = {loc[w].newId}

\* C2 witness: a race that has been decided, one 201 and one 409.
C2_Witness ==
  \E h, g \in Handlers :
    /\ Raced(h, g)
    /\ resp[h].status = 201
    /\ resp[g].status = 409

\* C3: a create with valid references (the resume belongs to the candidate)
\* either succeeds, storing its Application, or fails with 409 because
\* another Application for the pair is stored; two creates for one pair
\* never both succeed, whatever their resumeIds.
C3_CreateOnce ==
  /\ \A h \in Handlers :
       (DoneApply(h) /\ ValidReferences(req[h])) =>
         \/ /\ resp[h].status = 201
            /\ \E a \in StoredFor(req[h]) :
                 a.id = resp[h].data.id /\ a.resumeId = req[h].resumeId
         \/ /\ resp[h].status = 409
            /\ \E a \in StoredFor(req[h]) : a.id # loc[h].newId
  /\ \A h, g \in Handlers :
       (h # g /\ DoneApply(h) /\ DoneApply(g) /\ SamePair(req[h], req[g]))
         => ~(resp[h].status = 201 /\ resp[g].status = 201)

\* C3 witness: a first create answered 201; a second create for the same
\* pair with a different resume, found by the pre-check, answered 409.
C3_Witness ==
  \E h, g \in Handlers :
    /\ DoneApply(h) /\ DoneApply(g)
    /\ SamePair(req[h], req[g])
    /\ req[h].resumeId # req[g].resumeId
    /\ ValidReferences(req[g])
    /\ resp[h].status = 201
    /\ ~PassedPreCheck(g)
    /\ resp[g].status = 409

\* C4: once an Application for a pair is stored, a create for that pair
\* with valid references answers 409 and stores nothing, whatever the status
\* of the stored Application (rejected included).
C4_NoReapply ==
  [][\A h \in Handlers :
       ( /\ req[h].op = "apply"
         /\ pc[h] \notin {"idle", "done"}
         /\ pc'[h] = "done"
         /\ ValidReferences(req[h])
         /\ \E a \in StoredFor(req[h]) : a.id # loc[h].newId )
       => /\ resp'[h].status = 409
          /\ applications' = applications]_vars

\* C4 witness: the three requests were a create (201, still held by g), a
\* status update to rejected, and then, on the handler that served the
\* update, a second create for the pair, answered 409.
C4_Witness ==
  \E h, g \in Handlers, a \in applications :
    /\ h # g
    /\ started = 3
    /\ DoneApply(g)
    /\ resp[g].status = 201
    /\ resp[g].data.id = a.id
    /\ a.status = "rejected"
    /\ DoneApply(h)
    /\ SamePair(req[h], a)
    /\ ValidReferences(req[h])
    /\ resp[h].status = 409

\* the resume named by the request is stored and belongs to another
\* candidate than the one named
ResumeOfAnother(r) ==
  /\ r.resumeId \in DOMAIN resumes
  /\ resumes[r.resumeId] # r.candidateId

\* C5 as claimed: every create whose resume belongs to another candidate
\* than the supplied one fails with 400 naming resumeId, whether or not the
\* job and the candidate exist (here already for requests whose three
\* identifiers are present and well-formed).
C5_Claimed ==
  \A h \in Handlers :
    (DoneApply(h) /\ WellFormed(req[h]) /\ ResumeOfAnother(req[h]))
      => resp[h] = ResumeNotOwned

\* C5 as amended: every create whose resume belongs to another candidate
\* than the supplied one fails with a 400 or a 404; the failure is the 400
\* naming resumeId when the supplied jobId and candidateId match stored
\* records, otherwise an earlier failure of the validation order is reported.
C5_NotOwnedFails ==
  \A h \in Handlers :
    (DoneApply(h) /\ ResumeOfAnother(req[h])) =>
      /\ resp[h].status \in {400, 404}
      /\ (req[h].jobId \in jobs /\ req[h].candidateId \in candidates)
           => resp[h] = ResumeNotOwned

\* C5 witness: job and candidate exist, the resume is another candidate's,
\* and the create was answered with the 400 naming resumeId.
C5_Witness ==
  \E h \in Handlers :
    /\ DoneApply(h)
    /\ ResumeOfAnother(req[h])
    /\ req[h].jobId \in jobs
    /\ req[h].candidateId \in candidates
    /\ resp[h] = ResumeNotOwned

\* C6 as claimed: whenever a create is answered 409 because an Application
\* for its pair is stored, the response carries existingApplicationId, the
\* identifier of that stored Application.
C6_Claimed ==
  \A h \in Handlers :
    (DoneApply(h) /\ resp[h].status = 409) =>
      /\ "existingApplicationId" \in DOMAIN resp[h]
      /\ \E a \in StoredFor(req[h]) : resp[h].existingApplicationId = a.id

\* C7 as claimed: a create turned away by the unique index (E11000, after
\* it had passed the pre-check) is answered exactly as the pre-check would
\* have answered it: same status, same fields, the stored Application's id.
C7_Claimed ==
  \A h \in Handlers :
    (DoneApply(h) /\ PassedPreCheck(h) /\ resp[h].status # 201) =>
      \E a \in StoredFor(req[h]) : resp[h] = DuplicateApplication(a)

\* the first defect of a create request r among the seven the claim lists
\* ahead of the duplicate (an identifier is "not found" when it is a
\* well-formed identifier that matches no stored record); NoResponse: none
ListedFailure(r) ==
  IF r.jobId = Absent THEN MissingField("jobId", "Job ID is required")
  ELSE IF r.candidateId = Absent
    THEN MissingField("candidateId", "Candidate ID is required")
  ELSE IF r.resumeId = Absent
    THEN MissingField("resumeId", "Resume ID is required")
  ELSE IF IsObjectId(r.jobId) /\ r.jobId \notin jobs
    THEN NotFound("jobId", "Job not found")
  ELSE IF IsObjectId(r.candidateId) /\ r.candidateId \notin candidates
    THEN NotFound("candidateId", "Candidate not found")
  ELSE IF IsObjectId(r.resumeId) /\ r.resumeId \notin DOMAIN resumes
    THEN NotFound("resumeId", "Resume not found")
  ELSE IF r.resumeId \in DOMAIN resumes
          /\ resumes[r.resumeId] # r.candidateId
    THEN ResumeNotOwned
  ELSE NoResponse

\* an Application for the request's pair, other than the handler's own
DuplicateOf(h) == {a \in StoredFor(req[h]) : a.id # loc[h].newId}

SomeAbsent(r) == Absent \in {r.jobId, r.candidateId, r.resumeId}
SomeMalformed(r) == Malformed \in {r.jobId, r.candidateId, r.resumeId}

\* C8 as claimed: a create with one or more of the listed defects is
\* answered with the failure of the first of them in the order missing
\* jobId, missing candidateId, missing resumeId, job not found, candidate
\* not found, resume not found, resume not owned, duplicate.
C8_Claimed ==
  \A h \in Handlers :
    DoneApply(h) =>
      IF ListedFailure(req[h]) # NoResponse
        THEN resp[h] = ListedFailure(req[h])
        ELSE DuplicateOf(h) # {} => resp[h].status = 409

\* C8 as amended: the failure reported is the first in the order missing
\* jobId, missing candidateId, missing resumeId, then "Invalid ID format"
\* (400) if any of the three identifiers is malformed, then job not found,
\* candidate not found, resume not found, resume not owned, duplicate;
\* whatever the completion order of the three lookups.
C8_FailureOrder ==
  \A h \in Handlers :
    DoneApply(h) =>
      IF SomeAbsent(req[h]) THEN resp[h] = ListedFailure(req[h])
      ELSE IF SomeMalformed(req[h]) THEN resp[h] = InvalidIdFormat
      ELSE IF ListedFailure(req[h]) # NoResponse
        THEN resp[h] = ListedFailure(req[h])
      ELSE IF DuplicateOf(h) # {}
        THEN \E a \in DuplicateOf(h) : resp[h] = DuplicateApplication(a)
      ELSE resp[h].status = 201

\* C8 witness: a create for a pair that is already stored, naming an unknown
\* job, an unknown candidate and an unknown resume, was answered "Job not
\* found"; so several defects at once, the first reported.
C8_Witness ==
  \E h \in Handlers :
    /\ DoneApply(h)
    /\ applications # {}
    /\ IsObjectId(req[h].jobId) /\ req[h].jobId \notin jobs
    /\ IsObjectId(req[h].candidateId) /\ req[h].candidateId \notin candidates
    /\ IsObjectId(req[h].resumeId) /\ req[h].resumeId \notin DOMAIN resumes
    /\ resp[h] = NotFound("jobId", "Job not found")

\* no handler other than h takes part in the step
OnlyActs(h) ==
  \A g \in Handlers \ {h} :
    /\ pc'[g] = pc[g]
    /\ req'[g] = req[g]
    /\ resp'[g] = resp[g]
    /\ loc'[g] = loc[g]

\* C9: a status update whose status is outside {applied, shortlisted,
\* rejected} (absent included) changes no stored Application in any of its
\* steps and is answered 400 naming the field status, whether or not the
\* addressed application exists.
C9_InvalidStatusRejected ==
  [][\A h \in Handlers :
       ( /\ req'[h].op = "update"
         /\ req'[h].status \notin {"applied", "shortlisted", "rejected"}
         /\ OnlyActs(h) )
       => /\ applications' = applications
          /\ pc'[h] = "done" =>
               /\ resp'[h].status = 400
               /\ "field" \in DOMAIN resp'[h]
               /\ resp'[h].field = "status"]_vars

\* C9 witness: an update to a status outside the enum, addressed to a stored
\* application, was answered 400 and the application kept its status.
C9_Witness ==
  \E h \in Handlers, a \in applications :
    /\ DoneUpdate(h)
    /\ req[h].id = a.id
    /\ req[h].status = "pending"
    /\ resp[h].status = 400
    /\ a.status \in StatusEnum

\* C10 as claimed: every status update whose status is not one of applied,
\* shortlisted, rejected (empty or absent included) is answered with an
\* error that enumerates the valid values.
C10_Claimed ==
  \A h \in Handlers :
    (DoneUpdate(h)
       /\ req[h].status \notin {"applied", "shortlisted", "rejected"}) =>
      /\ resp[h].status = 400
      /\ "validValues" \in DOMAIN resp[h]
      /\ resp[h].validValues = {"applied", "shortlisted", "rejected"}

\* C10 as amended: a status update whose status is non-empty and not one of
\* applied, shortlisted, rejected is answered 400 with the valid values
\* enumerated; an empty or absent status is answered 400 "Status is
\* required" naming the field status, without the enumeration.
C10_EnumeratesUnlessAbsent ==
  \A h \in Handlers :
    (DoneUpdate(h)
       /\ req[h].status \notin {"applied", "shortlisted", "rejected"}) =>
      IF req[h].status = Absent
        THEN resp[h] = StatusRequired
        ELSE /\ resp[h].status = 400
             /\ "validValues" \in DOMAIN resp[h]
             /\ resp[h].validValues = {"applied", "shortlisted", "rejected"}

\* C10 witness: an update with a non-empty status outside the enum was
\* answered with the enumeration.
C10_Witness ==
  \E h \in Handlers :
    /\ DoneUpdate(h)
    /\ req[h].status = "pending"
    /\ "validValues" \in DOMAIN resp[h]

\* C11: appliedAt is set once, when the application is created, and no
\* step changes it afterwards: a document entering the store carries the
\* time its handler constructed it, and every document that stays keeps
\* its appliedAt, status updates included.
C11_AppliedAtSetOnce ==
  [][\A b \in applications' :
       IF \E a \in applications : a.id = b.id
         THEN \A a \in applications : a.id = b.id => b.appliedAt = a.appliedAt
       ELSE \E h \in Handlers : /\ pc[h] = "save"
                                /\ b.id = loc[h].newId
                                /\ b.appliedAt = loc[h].appliedAt
                                /\ b.appliedAt <= now]_vars

\* a status update answered 200 later than the application was created
C11_Witness ==
  \E h \in Handlers : \E a \in applications :
    /\ DoneUpdate(h)
    /\ resp[h].status = 200
    /\ resp[h].data.id = a.id
    /\ a.status = "rejected"
    /\ a.updatedAt > a.appliedAt
    /\ resp[h].data.appliedAt = a.appliedAt

\* C12: there is no transition policy.  For every pair (s, t) of
\* applied, shortlisted, rejected -- t = s and backward moves included --
\* a status update to t is let through to findByIdAndUpdate whatever the
\* store holds, and when it addresses an application of status s it is
\* answered 200 reporting t, and leaves the application with status t.
C12_NoTransitionPolicy ==
  [][\A h \in Handlers :
       \A s, t \in {"applied", "shortlisted", "rejected"} :
         /\ (Free(h) /\ pc'[h] # pc[h] /\ req'[h].op = "update"
              /\ req'[h].status = t)
            => pc'[h] = "findByIdAndUpdate"
         /\ (pc[h] = "findByIdAndUpdate" /\ pc'[h] = "done"
              /\ req[h].status = t
              /\ \E a \in applications : a.id = req[h].id /\ a.status = s)
            => /\ resp'[h].status = 200
               /\ resp'[h].data.status = t
               /\ \E b \in applications' : b.id = req[h].id /\ b.status = t
               /\ \A b \in applications' : b.id = req[h].id => b.status = t]_vars

\* a backward move: an application brought to rejected by one update is
\* brought back to applied by a later one
C12_Witness ==
  \E a \in applications :
    /\ a.status = "applied"
    /\ DoneUpdate("h1") /\ resp["h1"].status = 200
    /\ resp["h1"].data.id = a.id /\ resp["h1"].data.status = "rejected"
    /\ DoneUpdate("h2") /\ resp["h2"].status = 200
    /\ resp["h2"].data.id = a.id /\ resp["h2"].data.status = "applied"

\* C13: a status update with a valid status addressed to a well-formed
\* identifier that matches no stored Application is answered 404, and no
\* step of it creates a record or changes a stored one.
C13_UpdateUnknown ==
  [][\A h \in Handlers :
       /\ (Free(h) /\ pc'[h] # pc[h] /\ req'[h].op = "update"
            /\ req'[h].status \in {"applied", "shortlisted", "rejected"})
          => /\ pc'[h] = "findByIdAndUpdate"
             /\ applications' = applications
             /\ UNCHANGED store
       /\ (pc[h] = "findByIdAndUpdate" /\ pc'[h] = "done"
            /\ IsObjectId(req[h].id)
            /\ \A a \in applications : a.id # req[h].id)
          => /\ resp'[h].status = 404
             /\ resp'[h].message = "Application not found"
             /\ applications' = applications
             /\ UNCHANGED store]_vars

\* an update to shortlisted of an identifier no stored application has,
\* answered 404 while another application is stored, still as applied
C13_Witness ==
  \E h \in Handlers :
    /\ DoneUpdate(h)
    /\ req[h].status = "shortlisted"
    /\ resp[h].status = 404
    /\ applications # {}
    /\ \A a \in applications : a.id # req[h].id /\ a.status = "applied"

\* C14: a status update answered 200 changes only the status and the
\* updatedAt of the addressed Application: its jobId, candidateId, resumeId
\* (and appliedAt) are as before, every other Application is as before, none
\* is added or removed, and no Job, Candidate, Resume or Employer changes.
C14_UpdateFrame ==
  [][\A h \in Handlers :
       (pc[h] = "findByIdAndUpdate" /\ pc'[h] = "done"
        /\ resp'[h].status = 200)
       => /\ \E a \in applications : \E b \in applications' :
               /\ a.id = req[h].id /\ b.id = req[h].id
               /\ b.status = req[h].status
               /\ b.jobId = a.jobId
               /\ b.candidateId = a.candidateId
               /\ b.resumeId = a.resumeId
               /\ b.appliedAt = a.appliedAt
               /\ applications' \ {b} = applications \ {a}
          /\ Cardinality(applications') = Cardinality(applications)
          /\ UNCHANGED store]_vars

\* one of two stored applications was updated to rejected after the clock
\* had advanced; the other is still as it was created
C14_Witness ==
  \E h \in Handlers : \E a, b \in applications :
    /\ DoneUpdate(h) /\ resp[h].status = 200
    /\ a.id = req[h].id /\ a.status = "rejected"
    /\ a.updatedAt > a.appliedAt
    /\ b.id # a.id /\ b.status = "applied" /\ b.updatedAt = b.appliedAt

\* C15: in every reachable state, every stored Application has a status
\* among applied, shortlisted, rejected.
C15_StatusInEnum ==
  \A a \in applications : a.status \in {"applied", "shortlisted", "rejected"}

\* two stored applications, one as created and one updated to rejected
C15_Witness ==
  /\ \E a, b \in applications : a.status = "applied" /\ b.status = "rejected"
  /\ DoneUpdate("h2") /\ resp["h2"].status = 200
  /\ DoneApply("h1") /\ resp["h1"].status = 201

\* C16: every Application that a create persists enters the store with
\* status 'applied', whatever the request body holds (a status field
\* included), and every 201 reports status 'applied'.
C16_CreatedAsApplied ==
  [][/\ \A b \in applications' :
          (\A a \in applications : a.id # b.id) => b.status = "applied"
     /\ \A h \in Handlers :
          (DoneApply(h) /\ resp[h].status = 201)
          => resp[h].data.status = "applied"]_vars

\* a create whose body asked for status shortlisted was answered 201 and
\* its application is stored as applied
C16_Witness ==
  \E h \in Handlers : \E a \in applications :
    /\ DoneApply(h)
    /\ req[h].status = "shortlisted"
    /\ resp[h].status = 201
    /\ resp[h].data.id = a.id
    /\ resp[h].data.status = "applied"
    /\ a.status = "applied"

\* a finished GET /applications/:candidateId
DoneList(h) == pc[h] = "done" /\ req[h].op = "list"

\* C17: a listing by candidate answered 200 holds, once each, exactly the
\* stored Applications whose candidateId is the candidate asked for, as
\* they are stored, ordered by appliedAt from newest to oldest.
C17_ListExactAndOrdered ==
  \A h \in Handlers :
    (DoneList(h) /\ resp[h].status = 200) =>
      LET data == resp[h].data
          mine == {a \in applications : a.candidateId = req[h].candidateId}
      IN /\ resp[h].count = Len(data)
         /\ Len(data) = Cardinality(mine)
         /\ \A a \in mine : \E i \in 1..Len(data) : data[i] = Formatted(a)
         /\ \A i \in 1..Len(data) :
              \E a \in mine : data[i] = Formatted(a)
         /\ \A i, j \in 1..Len(data) :
              i < j => data[i].appliedAt >= data[j].appliedAt

\* a listing of two applications made at different times, the later first
C17_Witness ==
  \E h \in Handlers :
    /\ DoneList(h) /\ resp[h].status = 200
    /\ resp[h].count = 2
    /\ resp[h].data[1].appliedAt > resp[h].data[2].appliedAt
    /\ resp[h].data[1].candidate = req[h].candidateId
    /\ resp[h].data[2].candidate = req[h].candidateId

\* C18: a listing by candidate is answered 404 when the (well-formed)
\* identifier is that of no stored Candidate, and 200 with an empty list
\* when the Candidate is stored and no Application is theirs.
C18_ListUnknownOrEmpty ==
  \A h \in Handlers :
    DoneList(h) =>
      LET c == req[h].candidateId
      IN /\ (IsObjectId(c) /\ c \notin candidates)
            => /\ resp[h].status = 404
               /\ resp[h].message = "Candidate not found"
         /\ (c \in candidates
             /\ \A a \in applications : a.candidateId # c)
            => /\ resp[h].status = 200
               /\ resp[h].count = 0
               /\ resp[h].data = <<>>

\* a stored candidate without applications got 200 and an empty list while
\* another candidate's application was stored
C18_Witness ==
  \E h \in Handlers :
    /\ DoneList(h)
    /\ req[h].candidateId \in candidates
    /\ applications # {}
    /\ \A a \in applications : a.candidateId # req[h].candidateId
    /\ resp[h].status = 200
    /\ resp[h].count = 0

\* a finished POST /jobs
DoneJob(h) == pc[h] = "done" /\ req[h].op = "job"

\* a job posting whose fields other than salary are valid, its employer
\* stored, and whose salary is a number
OtherwiseValid(r) ==
  /\ Len(Trim(r.title)) \in 3..100
  /\ Len(Trim(r.description)) \in 10..2000
  /\ Len(Trim(r.location)) \in 2..100
  /\ r.employerId \in employers
  /\ r.salary # <<>>

\* C19 as claimed: a job posting with otherwise valid fields and a stored
\* employer is answered 201 for every numeric salary s with
\* 0 <= s <= 10,000,000, s = 0 included, and 400 for every s < 0 and every
\* s > 10,000,000.
C19_Claimed ==
  \A h \in Handlers :
    (DoneJob(h) /\ OtherwiseValid(req[h])) =>
      IF 0 <= req[h].salary[1] /\ req[h].salary[1] <= 10000000
        THEN resp[h].status = 201
        ELSE resp[h].status = 400

\* C20: the salary band reported for a job is a function of its salary
\* alone, by the ladder: below 50,000 Entry, from 50,000 below 100,000 Mid,
\* from 100,000 below 200,000 Senior, from 200,000 Executive; so is
\* getSalaryRange at the six salaries next to the thresholds.
C20_SalaryBand ==
  /\ GetSalaryRange(49999) = "Entry Level"
  /\ GetSalaryRange(50000) = "Mid Level"
  /\ GetSalaryRange(99999) = "Mid Level"
  /\ GetSalaryRange(100000) = "Senior Level"
  /\ GetSalaryRange(199999) = "Senior Level"
  /\ GetSalaryRange(200000) = "Executive Level"
  /\ \A h \in Handlers :
       (DoneJob(h) /\ resp[h].status = 201) =>
         LET s == resp[h].data.salary
             band == resp[h].data.salaryRange
         IN /\ s = req[h].salary[1]
            /\ s < 50000 => band = "Entry Level"
            /\ (50000 <= s /\ s < 100000) => band = "Mid Level"
            /\ (100000 <= s /\ s < 200000) => band = "Senior Level"
            /\ 200000 <= s => band = "Executive Level"

\* a job of salary 50,000 was created and reported as Mid Level, after
\* one of salary 200,000 had been stored
C20_Witness ==
  \E h \in Handlers :
    /\ DoneJob(h) /\ resp[h].status = 201
    /\ resp[h].data.salary = 50000
    /\ resp[h].data.salaryRange = "Mid Level"
    /\ resp[h].data.id \in jobs
    /\ salary[resp[h].data.id] = 50000
    /\ \E j \in jobs : salary[j] = 200000

\* a finished POST /resumes
DoneResume(h) == pc[h] = "done" /\ req[h].op = "resume"

\* the text after the last '/' of t: the last path segment of a URL
LastSegment(t) == Substring(t, LastIndexOf(t, "/") + 1)

\* C21 as claimed: the file extension reported for a resume is the text
\* after the last '.' of the last path segment of its URL (letter case
\* apart), and 'unknown' when that segment has no '.', whatever the host
\* and the earlier segments hold.
C21_Claimed ==
  \A h \in Handlers :
    (DoneResume(h) /\ resp[h].status = 201) =>
      LET segment == LastSegment(resp[h].data.fileUrl)
          dot == LastIndexOf(segment, ".")
      IN resp[h].data.fileExtension =
           IF dot >= 0 THEN ToLowerCase(Substring(segment, dot + 1))
           ELSE Unknown

\* a job posting (field employerId) or resume upload (field candidateId)
\* whose required fields are all there and whose reference is a
\* well-formed identifier of no stored record
DanglingCreate(r, field) ==
  IF field = "employerId"
    THEN /\ r.op = "job"
         /\ r.title # <<>> /\ r.description # <<>> /\ r.location # <<>>
         /\ ~Falsy(r.salary)
         /\ r.employerId # Absent /\ IsObjectId(r.employerId)
         /\ r.employerId \notin employers
    ELSE /\ r.op = "resume"
         /\ r.fileUrl # <<>>
         /\ r.candidateId # Absent /\ IsObjectId(r.candidateId)
         /\ r.candidateId \notin candidates

\* C22: no step of a job posting whose employerId, or of a resume upload
\* whose candidateId, matches no stored record stores a Job or a Resume,
\* and the request ends in a 404 that names that field.
C22_DanglingReference ==
  [][\A h \in Handlers : \A field \in {"employerId", "candidateId"} :
       DanglingCreate(req'[h], field) =>
         /\ jobs' = jobs /\ salary' = salary /\ resumes' = resumes
         /\ pc'[h] = "done" => /\ resp'[h].status = 404
                                /\ resp'[h].error = TRUE
                                /\ resp'[h].field = field]_vars

\* a resume for an unknown candidate was answered 404 naming candidateId,
\* after a job had been posted
C22_Witness ==
  \E h \in Handlers :
    /\ DoneResume(h)
    /\ req[h].candidateId = "c9"
    /\ resp[h] = NotFound("candidateId", "Candidate not found")
    /\ jobs # {"j1"}
    /\ DOMAIN resumes = {"r1", "r2", "r3"}

\* no two documents of the collection emails (_id -> email) have the same
\* email once trimmed and lower-cased
UniqueEmails(emails) ==
  \A x, y \in DOMAIN emails :
    x # y => ToLowerCase(Trim(emails[x])) # ToLowerCase(Trim(emails[y]))

\* a registration of kind op with a name, whose email, trimmed and
\* lower-cased, is that of a document of emails
TakenEmail(r, op, emails) ==
  /\ r.op = op
  /\ r.name # <<>> /\ r.email # <<>>
  /\ \E id \in DOMAIN emails :
       ToLowerCase(Trim(emails[id])) = ToLowerCase(Trim(r.email))

\* C23: under every interleaving of employer and candidate registrations,
\* no two stored Employers and no two stored Candidates have the same
\* email (trimmed, lower-cased), and a registration whose email is already
\* stored in its collection is answered 409 and stores nothing.
C23_UniqueEmail ==
  [][/\ UniqueEmails(employerEmail') /\ UniqueEmails(candidateEmail')
     /\ \A h \in Handlers :
          /\ (TakenEmail(req[h], "employer", employerEmail)
               /\ pc[h] # "done" /\ pc'[h] = "done")
             => resp'[h].status = 409 /\ employerEmail' = employerEmail
          /\ (TakenEmail(req[h], "candidate", candidateEmail)
               /\ pc[h] # "done" /\ pc'[h] = "done")
             => resp'[h].status = 409 /\ candidateEmail' = candidateEmail]_vars

\* two registrations of one email, differing in letter case, both passed
\* the pre-check; one was stored, the other lost at the unique index
C23_Witness ==
  /\ pc["h1"] = "done" /\ pc["h2"] = "done"
  /\ req["h1"].op = "candidate" /\ req["h2"].op = "candidate"
  /\ req["h1"].email = <<"H", "@", "t", ".", "c">>
  /\ req["h2"].email = <<"h", "@", "t", ".", "c">>
  /\ loc["h1"].newId # Absent /\ loc["h2"].newId # Absent
  /\ resp["h1"].status = 201
  /\ resp["h2"].status = 409
  /\ \E c \in candidates : candidateEmail[c] = <<"h", "@", "t", ".", "c">>

\* C24: every request to application-create, status-update and
\* list-by-candidate that returns has exactly one response; when it is not
\* the 200 or 201 it has a status among 400, 404, 409, 500, error = true
\* and a message; and the response of a request is not replaced before the
\* next request is received.
C24_ErrorShape ==
  [][\A h \in Handlers :
       /\ pc'[h] = "done" =>
            /\ resp'[h].status \in {200, 201, 400, 404, 409, 500}
            /\ resp'[h].status \in {400, 404, 409, 500} =>
                 /\ resp'[h].error = TRUE
                 /\ "message" \in DOMAIN resp'[h]
                 /\ resp'[h].message # ""
       /\ (pc[h] = "done" /\ pc'[h] = "done" /\ req'[h] = req[h])
            => resp'[h] = resp[h]
       /\ pc'[h] # "done" => resp'[h] = NoResponse]_vars

\* a status update naming a stored application was answered 500 after the
\* store failed
C24_Witness ==
  \E h \in Handlers :
    /\ DoneUpdate(h)
    /\ \E a \in applications : a.id = req[h].id /\ a.status = "applied"
    /\ req[h].status = "rejected"
    /\ resp[h].status = 500
    /\ resp[h].message = "Failed to update application status"

\* C26 as claimed: when an application-create is answered 400, 404, 409 or
\* 500, the document it constructed, if any, is not in the store, also
\* when the failure came after save().
C26_Claimed ==
  \A h \in Handlers :
    (DoneApply(h) /\ resp[h].status \in {400, 404, 409, 500}) =>
      \A a \in applications : a.id # loc[h].newId
\* C25: in a run of the test client where an employer, a job of that
\* employer, a candidate and a resume of that candidate were created in
\* that order with their returned ids, the application-create for these
\* ids is answered 201 with status 'applied'; the following
\* list-by-candidate for the candidate is answered 200 with a list that
\* contains that application; and the following status-update of that
\* application to 'shortlisted' is answered 200 with status 'shortlisted'
\* and the appliedAt of the 201.
C25_EndToEnd ==
  LET r == resp["h1"] IN
  /\ (testData.test = 5 /\ DoneApply("h1")) =>
       /\ r.status = 201
       /\ r.data.status = "applied"
       /\ r.data.job = testData.job
       /\ r.data.candidate = testData.candidate
       /\ r.data.resume = testData.resume
  /\ (testData.test = 6 /\ DoneList("h1")) =>
       /\ r.status = 200
       /\ \E i \in 1..r.count :
            /\ r.data[i].id = testData.application
            /\ r.data[i].job = testData.job
  /\ (testData.test = 7 /\ DoneUpdate("h1")) =>
       /\ r.status = 200
       /\ r.data.id = testData.application
       /\ r.data.status = "shortlisted"
       /\ r.data.appliedAt = testData.appliedAt

\* the client completed all its tests; the application was shortlisted
\* later than it was submitted
C25_Witness ==
  /\ testData.test = Completed
  /\ resp["h1"].status = 200
  /\ \E a \in applications :
       /\ a.id = testData.application
       /\ a.jobId = testData.job
       /\ a.status = "shortlisted"
       /\ a.appliedAt = testData.appliedAt
       /\ a.updatedAt > a.appliedAt

\* C27: in every reachable state, every stored application references a
\* stored job, a stored candidate and a stored resume, and that resume is
\* one of the application's candidate.
C27_References ==
  \A a \in applications :
    /\ a.jobId \in jobs
    /\ a.candidateId \in candidates
    /\ a.resumeId \in DOMAIN resumes
    /\ resumes[a.resumeId] = a.candidateId

\* an application is stored and its status was updated, and an application
\* with a stored resume of another candidate has just been refused
C27_Witness ==
  /\ \E a \in applications : a.status = "shortlisted"
  /\ DoneApply("h1")
  /\ req["h1"].jobId \in jobs
  /\ req["h1"].candidateId \in candidates
  /\ req["h1"].resumeId \in DOMAIN resumes
  /\ resumes[req["h1"].resumeId] # req["h1"].candidateId
  /\ resp["h1"].status = 400

\* C28: the daysOld of a listed application is the ceiling of the
\* milliseconds elapsed since its appliedAt divided by 86,400,000: the
\* least number of whole days that covers the elapsed time, so 0 when no
\* time has elapsed and 1 for an elapsed time of more than 0 and at most
\* one day; and the age of a stored application never decreases as time
\* advances.
C28_DaysOld ==
  [][/\ \A h \in Handlers :
          (pc[h] = "findByCandidate" /\ pc'[h] = "done"
           /\ resp'[h].status = 200) =>
            /\ Len(resp'[h].daysOld) = resp'[h].count
            /\ \A i \in 1..resp'[h].count :
                 LET elapsed == now - resp'[h].data[i].appliedAt
                     days == resp'[h].daysOld[i]
                 IN /\ days >= 0
                    /\ days * 86400000 >= elapsed
                    /\ (days - 1) * 86400000 < elapsed
                    /\ elapsed = 0 => days = 0
                    /\ (0 < elapsed /\ elapsed <= 86400000) => days = 1
     /\ \A a \in applications :
          now' >= now =>
            GetDaysOld(a.appliedAt, now') >= GetDaysOld(a.appliedAt, now)]_vars

\* a list built one day and one millisecond after the first application
\* and exactly one day after the second: ages 1 and 2
C28_Witness ==
  /\ DoneList("h1")
  /\ resp["h1"].status = 200
  /\ resp["h1"].count = 2
  /\ resp["h1"].data[1].appliedAt = 1
  /\ resp["h1"].data[2].appliedAt = 0
  /\ resp["h1"].daysOld = <<1, 2>>
  /\ now = 86400001

\* a finished GET /jobs/search
DoneSearch(h) == pc[h] = "done" /\ req[h].op = "search"

\* C29 as claimed: a search with minSalary and/or maxSalary is answered
\* with exactly the stored jobs whose salary is at least minSalary, when
\* given, and at most maxSalary, when given, whatever the numbers, 0
\* included; the jobs are in order of descending salary.
C29_Claimed ==
  \A h \in Handlers :
    DoneSearch(h) =>
      LET r == resp[h]
          min == req[h].minSalary
          max == req[h].maxSalary
          expected == {j \in jobs :
                         /\ Given(min) => salary[j] >= min[1]
                         /\ Given(max) => salary[j] <= max[1]}
      IN /\ r.status = 200
         /\ {r.data[i].id : i \in 1..r.count} = expected
         /\ r.count = Cardinality(expected)
         /\ \A i, j \in 1..r.count :
              i < j => r.data[i].salary >= r.data[j].salary

\* C30: from the launch of the process, the server starts to listen only
\* in a state where the database connection is established; the process
\* exits only because the connection attempt failed, then with code 1 and
\* without having listened, and after the exit nothing changes, so it never
\* listens; and a request is received only by a listening server with an
\* established connection.
C30_Startup ==
  [][/\ (~server.listening /\ server'.listening) => server.connected
     /\ (server.exitCode = <<>> /\ server'.exitCode # <<>>) =>
          /\ ~server.connected
          /\ ~server.listening
          /\ server'.exitCode = <<1>>
          /\ ~server'.listening
     /\ server.exitCode # <<>> =>
          /\ ~server.listening
          /\ server' = server
          /\ started' = started
     /\ started' # started =>
          /\ server.listening
          /\ server.connected
          /\ server.exitCode = <<>>]_vars

\* the server connected, listened, and answered an application with 201
C30_Witness ==
  /\ server.connected
  /\ server.listening
  /\ DoneApply("h1")
  /\ resp["h1"].status = 201

====
